---- MODULE Spec2Model ----
(***************************************************************************)
(* The Container Service of vibe-kanban                                    *)
(* (crates/services/src/services/container.rs and execution_process.rs):   *)
(* the relational rows it writes, the per-execution log files, the live    *)
(* message stores and child processes, and the default implementations of  *)
(* the ContainerService trait that drive them.                             *)
(***************************************************************************)
EXTENDS Integers, Sequences, FiniteSets, TLC

VARIABLES
    repos,          \* the repos of the workspace, in workspace order (WorkspaceRepo)
    ws,             \* the Workspace row
    sessions,       \* Session rows, oldest first
    procs,          \* ExecutionProcess rows, ordered by created_at
    repoStates,     \* ExecutionProcessRepoState rows
    turns,          \* CodingAgentTurn rows
    logFile,        \* <<session_id, execution_id>> -> lines of the .jsonl file
    heads,          \* repo name -> HEAD oid of its worktree (None: unreadable)
    msgStores,      \* execution_id -> history of the live MsgStore
    children,       \* ids of the executions whose child process is alive
    normalizers,    \* ids for which a normalize_logs task was spawned
    drains,         \* ids for which spawn_stream_raw_logs_to_storage was spawned
    notifications,  \* notify(title, message) calls, in order
    nextId,         \* source of fresh execution ids (Uuid::new_v4)
    streams,        \* execution_id -> state of its spawn_stream_raw_logs_to_storage task
    legacyLogs,     \* rows of the legacy execution_process_logs table, in stored order
    tmpFiles,       \* <<session_id, execution_id>> -> lines of the .jsonl.tmp file
    migration,      \* state of migrate_execution_logs_to_files
    resetTask,      \* state of the reset_session_to_process call in progress
    last            \* the last operation called, its arguments and what it returned

vars == <<repos, ws, sessions, procs, repoStates, turns, logFile, heads, msgStores,
          children, normalizers, drains, notifications, nextId, streams, legacyLogs,
          tmpFiles, migration, resetTask, last>>

\* the legacy log table, the temporary files and the task of the log migration
logMigration == <<legacyLogs, tmpFiles, migration>>

(***************************************************************************)
(* Bounds of the model.                                                    *)
(***************************************************************************)
MaxRepos == 2
MaxProcs == 2
MaxHeadMoves == 1

None == "None"

Statuses == {"Running", "Completed", "Failed", "Killed"}
RunReasons == {"SetupScript", "CodingAgent", "CleanupScript", "ArchiveScript", "DevServer"}
ScriptContexts == {"SetupScript", "CleanupScript", "ArchiveScript"}
CodingAgentTypes ==
    {"CodingAgentInitialRequest", "CodingAgentFollowUpRequest", "ReviewRequest"}
Oids == {"c0", "c1"}
Prompts == {"hi", "fix", "look"}

(***************************************************************************)
(* ExecutorAction: a node with a typed request and an optional             *)
(* next_action.  A chain is the sequence of its nodes: the head is the     *)
(* action's own request, the tail is its next_action (<<>> for None).      *)
(***************************************************************************)
ScriptRequest(script, context, working_dir) ==
    [typ |-> "ScriptRequest", script |-> script, language |-> "Bash",
     context |-> context, working_dir |-> working_dir, prompt |-> None]

CodingAgentRequest(typ, prompt) ==
    [typ |-> typ, script |-> None, language |-> None,
     context |-> None, working_dir |-> None, prompt |-> prompt]

NewAction(typ, next_action) == <<typ>> \o next_action

typ(action) == Head(action)

next_action(action) == Tail(action)

append_action_at_root(action, child) == child \o action

append_action(action, child) == action \o child

IsCodingAgentTyp(t) == t.typ \in CodingAgentTypes

(***************************************************************************)
(* Repos.  A script is Some(text) or None; name is also the worktree's     *)
(* directory inside the container.                                         *)
(***************************************************************************)
RepoNames == <<"a", "b", "c", "d">>

Repo(i, setup, parallel, cleanup, archive) ==
    [id |-> i, name |-> RepoNames[i],
     setup_script |-> IF setup THEN "setup.sh" ELSE None,
     cleanup_script |-> IF cleanup THEN "cleanup.sh" ELSE None,
     archive_script |-> IF archive THEN "archive.sh" ELSE None,
     parallel_setup_script |-> parallel]

\* git.get_head_info(container/repo.name): Ok(oid), or Err (None) when the
\* worktree cannot be read
get_head_info(name) == IF name \in DOMAIN heads THEN heads[name] ELSE None

(***************************************************************************)
(* should_finalize                                                         *)
(***************************************************************************)
should_finalize_no_leaf_rule(execution_process) ==
    IF execution_process.run_reason = "DevServer" THEN FALSE
    ELSE IF execution_process.status \in {"Failed", "Killed"} THEN TRUE
    ELSE next_action(execution_process.executor_action) = <<>>

should_finalize_by_next_action(execution_process) ==
    IF execution_process.run_reason = "DevServer" THEN FALSE
    ELSE IF /\ execution_process.run_reason = "SetupScript"
            /\ next_action(execution_process.executor_action) = <<>>
         THEN FALSE
    ELSE next_action(execution_process.executor_action) = <<>>

should_finalize(execution_process) ==
    IF execution_process.run_reason = "DevServer" THEN FALSE
    ELSE IF /\ execution_process.run_reason = "SetupScript"
            /\ next_action(execution_process.executor_action) = <<>>
         THEN FALSE
    ELSE IF execution_process.status \in {"Failed", "Killed"} THEN TRUE
    ELSE next_action(execution_process.executor_action) = <<>>

(***************************************************************************)
(* finalize_task: the notification it sends, <<>> when it sends none.      *)
(***************************************************************************)
workspace_name(workspace) ==
    IF workspace.name # None THEN workspace.name ELSE workspace.branch

finalize_notifications_no_kill_rule(execution_process, workspace, session) ==
    LET title == "Workspace Complete: " \o workspace_name(workspace)
    IN  IF execution_process.status = "Completed"
        THEN <<[title |-> title,
                message |-> <<"completed successfully", workspace_name(workspace),
                              workspace.branch, session.executor>>]>>
        ELSE IF execution_process.status \in {"Failed", "Killed"}
        THEN <<[title |-> title,
                message |-> <<"execution failed", workspace_name(workspace),
                              workspace.branch, session.executor>>]>>
        ELSE <<>>

finalize_notifications(execution_process, workspace, session) ==
    IF execution_process.status = "Killed" THEN <<>>
    ELSE LET title == "Workspace Complete: " \o workspace_name(workspace)
         IN  IF execution_process.status = "Completed"
             THEN <<[title |-> title,
                     message |-> <<"completed successfully", workspace_name(workspace),
                                   workspace.branch, session.executor>>]>>
             ELSE IF execution_process.status = "Failed"
             THEN <<[title |-> title,
                     message |-> <<"execution failed", workspace_name(workspace),
                                   workspace.branch, session.executor>>]>>
             ELSE <<>>

(***************************************************************************)
(* try_start_next_action: the run reason of the next action.               *)
(***************************************************************************)
next_run_reason_by_next_only(current, next) ==
    IF next.typ = "ScriptRequest" THEN "SetupScript" ELSE "CodingAgent"

next_run_reason(current, next) ==
    IF current.typ = "ScriptRequest" /\ next.typ = "ScriptRequest"
    THEN "SetupScript"
    ELSE IF IsCodingAgentTyp(current) /\ next.typ = "ScriptRequest"
    THEN "CleanupScript"
    ELSE "CodingAgent"

(***************************************************************************)
(* Action builders.  An Option<ExecutorAction> of None is the empty chain. *)
(***************************************************************************)
RECURSIVE cleanup_loop(_, _, _)
cleanup_loop(with, i, root_action) ==
    IF i > Len(with) THEN root_action
    ELSE cleanup_loop(with, i + 1,
             append_action(root_action,
                 NewAction(ScriptRequest(with[i].cleanup_script, "CleanupScript",
                                         with[i].name), <<>>)))

cleanup_actions_for_repos(rs) ==
    LET repos_with_cleanup == SelectSeq(rs, LAMBDA r : r.cleanup_script # None)
    IN  IF repos_with_cleanup = <<>> THEN <<>>
        ELSE cleanup_loop(repos_with_cleanup, 2,
                 NewAction(ScriptRequest(repos_with_cleanup[1].cleanup_script,
                                         "CleanupScript", repos_with_cleanup[1].name),
                           <<>>))

RECURSIVE archive_loop(_, _, _)
archive_loop(with, i, root_action) ==
    IF i > Len(with) THEN root_action
    ELSE archive_loop(with, i + 1,
             append_action(root_action,
                 NewAction(ScriptRequest(with[i].archive_script, "ArchiveScript",
                                         with[i].name), <<>>)))

archive_actions_for_repos(rs) ==
    LET repos_with_archive == SelectSeq(rs, LAMBDA r : r.archive_script # None)
    IN  IF repos_with_archive = <<>> THEN <<>>
        ELSE archive_loop(repos_with_archive, 2,
                 NewAction(ScriptRequest(repos_with_archive[1].archive_script,
                                         "ArchiveScript", repos_with_archive[1].name),
                           <<>>))

RECURSIVE setup_loop(_, _, _)
setup_loop(with, i, root_action) ==
    IF i > Len(with) THEN root_action
    ELSE setup_loop(with, i + 1,
             append_action(root_action,
                 NewAction(ScriptRequest(with[i].setup_script, "SetupScript",
                                         with[i].name), <<>>)))

setup_actions_for_repos(rs) ==
    LET repos_with_setup == SelectSeq(rs, LAMBDA r : r.setup_script # None)
    IN  IF repos_with_setup = <<>> THEN <<>>
        ELSE setup_loop(repos_with_setup, 2,
                 NewAction(ScriptRequest(repos_with_setup[1].setup_script,
                                         "SetupScript", repos_with_setup[1].name),
                           <<>>))

setup_action_for_repo(repo) ==
    IF repo.setup_script = None THEN <<>>
    ELSE NewAction(ScriptRequest(repo.setup_script, "SetupScript", repo.name), <<>>)

RECURSIVE sequential_loop(_, _, _)
sequential_loop(rs, i, chained) ==
    IF i = 0 THEN chained
    ELSE sequential_loop(rs, i - 1,
             IF rs[i].setup_script # None
             THEN NewAction(ScriptRequest(rs[i].setup_script, "SetupScript", rs[i].name),
                            chained)
             ELSE chained)

build_sequential_setup_chain_first_only(rs, next) ==
    IF rs = <<>> THEN next
    ELSE NewAction(ScriptRequest(rs[1].setup_script, "SetupScript", rs[1].name), next)

build_sequential_setup_chain(rs, next) == sequential_loop(rs, Len(rs), next)

(***************************************************************************)
(* LogMsg and the JSON line a log writer appends for it.                   *)
(***************************************************************************)
Stdout(text) == [kind |-> "Stdout", content |-> text]
Stderr(text) == [kind |-> "Stderr", content |-> text]
JsonPatch(patch) == [kind |-> "JsonPatch", content |-> patch]

\* serde_json::to_string(msg) followed by push('\n')
json_line(msg) == <<"{", msg.kind, ":", msg.content, "}", "\n">>

\* ConversationPatch::add_normalized_entry(index, entry)
add_normalized_entry(index, entry) == [op |-> "add", index |-> index, value |-> entry]

(***************************************************************************)
(* The rows and resources the operations read and write, as one value, so  *)
(* that a handler which calls start_execution several times composes.      *)
(* calls records every start_execution call of the handler: its arguments, *)
(* what its fallible calls returned (env), what it returned and the id of  *)
(* the row it inserted (0 for none).                                       *)
(***************************************************************************)
Store ==
    [ws |-> ws, sessions |-> sessions, procs |-> procs, repoStates |-> repoStates,
     turns |-> turns, logFile |-> logFile, msgStores |-> msgStores,
     children |-> children, normalizers |-> normalizers, drains |-> drains,
     notifications |-> notifications, nextId |-> nextId, calls |-> <<>>]

Returned(s, session_id, executor_action, run_reason, env, result, id) ==
    [s EXCEPT !.calls = Append(@, [session_id |-> session_id,
                                   executor_action |-> executor_action,
                                   run_reason |-> run_reason, env |-> env,
                                   result |-> result, id |-> id])]

ProcIndex(ps, id) == CHOOSE i \in 1..Len(ps) : ps[i].id = id

HasProc(ps, id) == \E i \in 1..Len(ps) : ps[i].id = id

ProcById(ps, id) == ps[ProcIndex(ps, id)]

SessionIds == {sessions[i].id : i \in 1..Len(sessions)}

SessionById(ss, id) == ss[CHOOSE i \in 1..Len(ss) : ss[i].id = id]

\* Session::create
Session_create(s, executor) ==
    [s EXCEPT !.sessions = Append(@, [id |-> Len(@) + 1, workspace_id |-> s.ws.id,
                                      executor |-> executor])]

\* ExecutionProcess::create: the process row and its repo-state rows, in one
\* transaction
ExecutionProcess_create(s, create, id, repo_states) ==
    [s EXCEPT
       !.procs = Append(@, [id |-> id, session_id |-> create.session_id,
                            status |-> "Running", run_reason |-> create.run_reason,
                            executor_action |-> create.executor_action,
                            exit_code |-> None]),
       !.repoStates = @ \cup
            {[execution_process_id |-> id, repo_id |-> repo_states[i].repo_id,
              before_head_commit |-> repo_states[i].before_head_commit,
              after_head_commit |-> repo_states[i].after_head_commit,
              merge_commit |-> repo_states[i].merge_commit]
               : i \in 1..Len(repo_states)}]

\* ExecutionProcess::update_completion
ExecutionProcess_update_completion(s, id, status, exit_code) ==
    IF ~HasProc(s.procs, id) THEN s
    ELSE [s EXCEPT !.procs[ProcIndex(s.procs, id)] =
                        [@ EXCEPT !.status = status, !.exit_code = exit_code]]

\* Workspace::set_archived
Workspace_set_archived(s, archived) == [s EXCEPT !.ws.archived = archived]

\* CodingAgentTurn::create
CodingAgentTurn_create(s, create) ==
    [s EXCEPT !.turns = @ \cup {[id |-> Cardinality(@) + 1,
                                 execution_process_id |-> create.execution_process_id,
                                 prompt |-> create.prompt,
                                 agent_session_id |-> None,
                                 agent_message_id |-> None]}]

\* start_execution_inner, when it succeeds: the child is spawned and a MsgStore
\* is registered under the execution's id
start_execution_inner(s, id) ==
    [s EXCEPT !.children = @ \cup {id},
              !.msgStores = (id :> <<>>) @@ @]

(***************************************************************************)
(* execution_process::append_log_message: one JSON line, appended to the   *)
(* log file of (session_id, execution_id); ok is whether the write worked. *)
(***************************************************************************)
FileLines(lf, key) == IF key \in DOMAIN lf THEN lf[key] ELSE <<>>

append_log_message(s, session_id, execution_id, msg, ok) ==
    IF ~ok THEN s
    ELSE LET key == <<session_id, execution_id>>
         IN  [s EXCEPT !.logFile =
                  (key :> Append(FileLines(s.logFile, key), json_line(msg)))
                  @@ [k \in DOMAIN s.logFile \ {key} |-> s.logFile[k]]]

(***************************************************************************)
(* start_execution.  o holds what its fallible calls return in this call:  *)
(* o.fail names the step that returns Err ("None" when all succeed),       *)
(* o.update, o.append and o.append_patch whether the writes of the failure *)
(* path succeed, o.profile whether the executor profile resolves.          *)
(***************************************************************************)
StartFailures ==
    {"None", "find_repos", "create", "set_archived", "turn",
     "ExecutableNotFound", "SpawnFailed"}

Outcome(fail, update, append, append_patch, profile) ==
    [fail |-> fail, update |-> update, append |-> append,
     append_patch |-> append_patch, profile |-> profile]

AllGood == Outcome("None", TRUE, TRUE, TRUE, TRUE)

\* every outcome, the flags a step does not read left TRUE
Outcomes ==
    {Outcome(f, TRUE, TRUE, TRUE, TRUE) :
         f \in {"find_repos", "create", "set_archived", "turn"}}
    \cup {Outcome("None", TRUE, TRUE, TRUE, p) : p \in BOOLEAN}
    \cup {Outcome("SpawnFailed", u, a, TRUE, TRUE) : u \in BOOLEAN, a \in BOOLEAN}
    \cup {Outcome("ExecutableNotFound", u, a, ap, TRUE) :
              u \in BOOLEAN, a \in BOOLEAN, ap \in BOOLEAN}

\* the "before" snapshot: one CreateExecutionProcessRepoState per repo
capture_repo_states_after_too(repositories) ==
    [i \in 1..Len(repositories) |->
        [repo_id |-> repositories[i].id,
         before_head_commit |-> get_head_info(repositories[i].name),
         after_head_commit |-> get_head_info(repositories[i].name),
         merge_commit |-> None]]

capture_repo_states_merge_too(repositories) ==
    [i \in 1..Len(repositories) |->
        [repo_id |-> repositories[i].id,
         before_head_commit |-> get_head_info(repositories[i].name),
         after_head_commit |-> None,
         merge_commit |-> get_head_info(repositories[i].name)]]

capture_repo_states(repositories) ==
    [i \in 1..Len(repositories) |->
        [repo_id |-> repositories[i].id,
         before_head_commit |-> get_head_info(repositories[i].name),
         after_head_commit |-> None,
         merge_commit |-> None]]

\* the prompt of a prompt-bearing action, None for a script
turn_prompt_initial_only(executor_action) ==
    IF typ(executor_action).typ = "CodingAgentInitialRequest"
    THEN typ(executor_action).prompt
    ELSE None

turn_prompt(executor_action) ==
    IF IsCodingAgentTyp(typ(executor_action)) THEN typ(executor_action).prompt
    ELSE None

\* the messages written to the log file when start_execution_inner fails
start_error_messages_always_patch(start_error) ==
    <<Stderr("Failed to start execution: " \o start_error),
      JsonPatch(add_normalized_entry(2,
          [entry_type |-> "ErrorMessage", error_type |-> "SetupRequired",
           content |-> "The required executable is not installed."]))>>

start_error_messages(start_error) ==
    <<Stderr("Failed to start execution: " \o start_error)>>
    \o IF start_error = "ExecutableNotFound"
       THEN <<JsonPatch(add_normalized_entry(2,
                  [entry_type |-> "ErrorMessage", error_type |-> "SetupRequired",
                   content |-> "The required executable is not installed."]))>>
       ELSE <<>>

\* the status written when start_execution_inner fails
start_error_status == "Failed"

start_execution_failed(s, session_id, id, start_error, o) ==
    LET msgs == start_error_messages(start_error)
        s1 == IF o.update
              THEN ExecutionProcess_update_completion(s, id, start_error_status, None)
              ELSE s
        s2 == append_log_message(s1, session_id, id, msgs[1], o.append)
    IN  IF Len(msgs) > 1
        THEN append_log_message(s2, session_id, id, msgs[2], o.append_patch)
        ELSE s2

\* after the child is spawned: the normalizer for coding-agent and review
\* requests, then the drain task
start_execution_started(s, id, executor_action, o) ==
    LET s1 == IF /\ id \in DOMAIN s.msgStores
                 /\ IsCodingAgentTyp(typ(executor_action))
                 /\ o.profile
              THEN [s EXCEPT !.normalizers = @ \cup {id}]
              ELSE s
    IN  [s1 EXCEPT !.drains = @ \cup {id}]

\* the two checks before anything is written: the error, "None" when they pass
start_precondition_no_repo_check(s) ==
    IF s.ws.container_ref = None THEN "ContainerRefNotFound" ELSE "None"

start_precondition(s) ==
    IF repos = <<>> THEN "NoRepositories"
    ELSE IF s.ws.container_ref = None THEN "ContainerRefNotFound"
    ELSE "None"

\* whether start_execution clears the archived flag of the workspace
clears_archived_always(run_reason) == TRUE

clears_archived(run_reason) == run_reason # "ArchiveScript"

start_execution(s, session_id, executor_action, run_reason, o) ==
    LET Ret(st, result, nid) ==
            Returned(st, session_id, executor_action, run_reason, o, result, nid)
        id == s.nextId
        s1 == ExecutionProcess_create(
                  [s EXCEPT !.nextId = @ + 1],
                  [session_id |-> session_id, executor_action |-> executor_action,
                   run_reason |-> run_reason],
                  id, capture_repo_states(repos))
        s2 == IF clears_archived(run_reason) THEN Workspace_set_archived(s1, FALSE)
              ELSE s1
        s3 == IF turn_prompt(executor_action) # None
              THEN CodingAgentTurn_create(s2, [execution_process_id |-> id,
                                               prompt |-> turn_prompt(executor_action)])
              ELSE s2
    IN  IF o.fail = "find_repos" THEN Ret(s, "Sqlx", 0)
        ELSE IF start_precondition(s) # "None" THEN Ret(s, start_precondition(s), 0)
        ELSE IF o.fail = "create" THEN Ret(s, "Sqlx", 0)
        ELSE IF clears_archived(run_reason) /\ o.fail = "set_archived"
             THEN Ret(s1, "Sqlx", id)
        ELSE IF turn_prompt(executor_action) # None /\ o.fail = "turn"
             THEN Ret(s2, "Sqlx", id)
        ELSE IF o.fail \in {"ExecutableNotFound", "SpawnFailed"}
             THEN Ret(start_execution_failed(s3, session_id, id, o.fail, o), o.fail, id)
        ELSE Ret(start_execution_started(start_execution_inner(s3, id), id,
                                         executor_action, o), "Ok", id)

(***************************************************************************)
(* try_start_next_action and finalize_task on an ExecutionContext: the     *)
(* process row, the workspace and the session of the process.              *)
(***************************************************************************)
try_start_next_action_from_current(s, execution_process, o) ==
    LET action == execution_process.executor_action
    IN  IF next_action(action) = <<>> THEN s
        ELSE start_execution(s, execution_process.session_id, action,
                             next_run_reason(typ(action), typ(next_action(action))), o)

try_start_next_action(s, execution_process, o) ==
    LET action == execution_process.executor_action
    IN  IF next_action(action) = <<>> THEN s
        ELSE start_execution(s, execution_process.session_id, next_action(action),
                             next_run_reason(typ(action), typ(next_action(action))), o)

finalize_task(s, execution_process) ==
    [s EXCEPT !.notifications =
         @ \o finalize_notifications(execution_process, s.ws,
                                     SessionById(s.sessions, execution_process.session_id))]

\* what a handler that made these start_execution calls returns when it
\* propagates their errors with `?`
Propagated(calls) ==
    IF \E i \in 1..Len(calls) : calls[i].result # "Ok"
    THEN calls[CHOOSE i \in 1..Len(calls) : calls[i].result # "Ok"].result
    ELSE "Ok"

(***************************************************************************)
(* The end of a child process, as the exit monitor and stop_execution      *)
(* record it: the status and exit code, the "after" HEAD of every repo     *)
(* whose worktree can be read, the child gone and its MsgStore closed and  *)
(* removed.                                                                *)
(***************************************************************************)
record_after_head_commits(s, id) ==
    [s EXCEPT !.repoStates =
        {IF /\ r.execution_process_id = id
            /\ s.ws.container_ref # None
            /\ \E i \in 1..Len(repos) :
                  repos[i].id = r.repo_id /\ get_head_info(repos[i].name) # None
         THEN [r EXCEPT !.after_head_commit =
                  get_head_info(repos[CHOOSE i \in 1..Len(repos) :
                                          repos[i].id = r.repo_id].name)]
         ELSE r : r \in @}]

process_ended(s, id, status, exit_code) ==
    LET s1 == ExecutionProcess_update_completion(s, id, status, exit_code)
        s2 == record_after_head_commits(s1, id)
    IN  [s2 EXCEPT !.children = @ \ {id},
                   !.msgStores = [k \in DOMAIN @ \ {id} |-> @[k]]]

\* stop_execution: a Running process goes to the given status and its child
\* is killed; a process that is not Running is left as it is
stop_execution(s, id, status) ==
    IF ~HasProc(s.procs, id) \/ ProcById(s.procs, id).status # "Running" THEN s
    ELSE process_ended(s, id, status, IF status = "Completed" THEN "0" ELSE None)

(***************************************************************************)
(* start_workspace.  pre names the step before the first start_execution   *)
(* that returns Err ("None" when all succeed); outs[i] holds what the      *)
(* fallible calls of the i-th start_execution call return.                 *)
(***************************************************************************)
WorkspaceFailures == {"None", "create", "find_repos", "find_by_id", "Session_create"}

\* create(workspace): the container is provisioned and its path recorded
create(s) == [s EXCEPT !.ws.container_ref = "/c"]

RECURSIVE start_parallel_setups(_, _, _, _, _)
start_parallel_setups(s, session_id, repos_with_setup, i, outs) ==
    IF i > Len(repos_with_setup) THEN s
    ELSE start_parallel_setups(
             IF setup_action_for_repo(repos_with_setup[i]) # <<>>
             THEN start_execution(s, session_id,
                                  setup_action_for_repo(repos_with_setup[i]),
                                  "SetupScript", outs[i])
             ELSE s,
             session_id, repos_with_setup, i + 1, outs)

all_parallel_never(repos_with_setup) == FALSE

all_parallel(repos_with_setup) ==
    \A i \in 1..Len(repos_with_setup) : repos_with_setup[i].parallel_setup_script

start_workspace(s, executor, prompt, pre, outs) ==
    LET s0 == create(s)
        s1 == Session_create(s0, executor)
        session_id == Len(s1.sessions)
        repos_with_setup == SelectSeq(repos, LAMBDA r : r.setup_script # None)
        cleanup_action == cleanup_actions_for_repos(repos)
        coding_action ==
            NewAction(CodingAgentRequest("CodingAgentInitialRequest", prompt),
                      cleanup_action)
        main_action == build_sequential_setup_chain(repos_with_setup, coding_action)
    IN  IF pre = "create" THEN s
        ELSE IF pre \in {"find_repos", "find_by_id", "Session_create"} THEN s0
        ELSE IF all_parallel(repos_with_setup)
        THEN start_execution(
                 start_parallel_setups(s1, session_id, repos_with_setup, 1, outs),
                 session_id, coding_action, "CodingAgent",
                 outs[Len(repos_with_setup) + 1])
        ELSE start_execution(s1, session_id, main_action, "SetupScript", outs[1])

\* what start_workspace returns: the error of the failed step, or the result
\* of its last start_execution call
start_workspace_result(pre, calls) ==
    IF pre # "None" THEN "Err" ELSE calls[Len(calls)].result

(***************************************************************************)
(* try_run_archive_script, try_stop and reset_session_to_process.          *)
(***************************************************************************)
\* ExecutionProcess::has_running_non_dev_server_processes_for_workspace
has_running_non_dev_server_processes_for_workspace(s) ==
    \E i \in 1..Len(s.procs) :
        s.procs[i].status = "Running" /\ s.procs[i].run_reason # "DevServer"

\* ensure_container_exists(workspace): the container of a workspace that has
\* none is provisioned
ensure_container_exists(s) == IF s.ws.container_ref = None THEN create(s) ELSE s

archive_precondition_unchecked(s) == FALSE

archive_precondition(s) == has_running_non_dev_server_processes_for_workspace(s)

\* the calls of try_run_archive_script before start_execution that can return
\* Err; pre names the one that does ("None" when all succeed)
ArchiveFailures ==
    {"None", "find_by_id", "has_running", "ensure_container", "find_repos",
     "find_latest", "Session_create"}

try_run_archive_script_session_first(s, pre, o) ==
    LET s0 == ensure_container_exists(s)
        action == archive_actions_for_repos(repos)
        s1 == IF s0.sessions = <<>> THEN Session_create(s0, None) ELSE s0
        session_id == s1.sessions[Len(s1.sessions)].id
    IN  IF pre = "find_by_id" THEN s
        ELSE IF pre = "has_running" \/ archive_precondition(s) THEN s
        ELSE IF pre = "ensure_container" THEN s
        ELSE IF pre = "find_repos" THEN s0
        ELSE IF pre = "find_latest" THEN s0
        ELSE IF s0.sessions = <<>> /\ pre = "Session_create" THEN s0
        ELSE IF action = <<>> THEN s1
        ELSE start_execution(s1, session_id, action, "ArchiveScript", o)

try_run_archive_script(s, pre, o) ==
    LET s0 == ensure_container_exists(s)
        action == archive_actions_for_repos(repos)
        s1 == IF s0.sessions = <<>> THEN Session_create(s0, None) ELSE s0
        session_id == s1.sessions[Len(s1.sessions)].id
    IN  IF pre = "find_by_id" THEN s
        ELSE IF pre = "has_running" \/ archive_precondition(s) THEN s
        ELSE IF pre = "ensure_container" THEN s
        ELSE IF pre = "find_repos" THEN s0
        ELSE IF action = <<>> THEN s0
        ELSE IF pre = "find_latest" THEN s0
        ELSE IF s0.sessions = <<>> /\ pre = "Session_create" THEN s0
        ELSE start_execution(s1, session_id, action, "ArchiveScript", o)

\* what try_run_archive_script returns: Ok when a gate stops it, the error of
\* a failed query, or what its start_execution call returns
try_run_archive_script_result(s, pre, o) ==
    LET action == archive_actions_for_repos(repos)
    IN  IF pre = "find_by_id" THEN "Err"
        ELSE IF pre = "has_running" \/ archive_precondition(s) THEN "Ok"
        ELSE IF pre = "ensure_container" THEN "Ok"
        ELSE IF pre = "find_repos" THEN "Err"
        ELSE IF action = <<>> THEN "Ok"
        ELSE IF pre = "find_latest" THEN "Err"
        ELSE IF s.sessions = <<>> /\ pre = "Session_create" THEN "Err"
        ELSE Propagated(try_run_archive_script(s, pre, o).calls)

\* archive_workspace.  env.set_archived, env.find_dev_servers and env.stop
\* tell whether those calls succeed; env.pre and env.o are the outcomes of
\* the calls of try_run_archive_script.
dev_servers_to_stop_none(s, ok) == {}

dev_servers_to_stop(s, ok) ==
    IF ~ok THEN {}
    ELSE {s.procs[i].id : i \in {j \in 1..Len(s.procs) :
                                    /\ s.procs[j].status = "Running"
                                    /\ s.procs[j].run_reason = "DevServer"}}

RECURSIVE stop_dev_servers(_, _, _)
stop_dev_servers(s, ids, ok) ==
    IF ids = {} THEN s
    ELSE LET id == CHOOSE x \in ids : \A y \in ids : x <= y
         IN  stop_dev_servers(IF ok THEN stop_execution(s, id, "Killed") ELSE s,
                              ids \ {id}, ok)

archive_workspace(s, env) ==
    LET s1 == Workspace_set_archived(s, TRUE)
        s2 == stop_dev_servers(s1, dev_servers_to_stop(s1, env.find_dev_servers),
                               env.stop)
    IN  IF ~env.set_archived THEN s
        ELSE try_run_archive_script(s2, env.pre, env.o)

archive_workspace_result(env) == IF ~env.set_archived THEN "Err" ELSE "Ok"

RECURSIVE try_stop_loop(_, _, _)
try_stop_loop(s, i, include_dev_server) ==
    IF i > Len(s.procs) THEN s
    ELSE try_stop_loop(
             IF ~include_dev_server /\ s.procs[i].run_reason = "DevServer" THEN s
             ELSE IF s.procs[i].status = "Running"
             THEN stop_execution(s, s.procs[i].id, "Killed")
             ELSE s,
             i + 1, include_dev_server)

try_stop_dev_servers_too(s, include_dev_server) == try_stop_loop(s, 1, TRUE)

try_stop(s, include_dev_server) == try_stop_loop(s, 1, include_dev_server)

drop_at_and_after_every_session(s, session_id, target_process_id) ==
    [s EXCEPT !.procs = SelectSeq(@, LAMBDA p : p.id < target_process_id)]

\* ExecutionProcess::drop_at_and_after: the target and every later process
\* of the session are dropped
drop_at_and_after(s, session_id, target_process_id) ==
    [s EXCEPT !.procs =
        SelectSeq(@, LAMBDA p : ~(p.session_id = session_id
                                   /\ p.id >= target_process_id))]

reset_session_to_process_result(s, session_id, target_process_id) ==
    IF ~HasProc(s.procs, target_process_id) THEN "Process not found"
    ELSE IF ProcById(s.procs, target_process_id).session_id # session_id
    THEN "Process does not belong to this session"
    ELSE "Ok"

reset_session_to_process(s, session_id, target_process_id) ==
    IF reset_session_to_process_result(s, session_id, target_process_id) # "Ok" THEN s
    ELSE drop_at_and_after(try_stop(ensure_container_exists(s), FALSE),
                           session_id, target_process_id)

\* ExecutionProcess::find_prev_after_head_commit: the "after" HEAD of the
\* repo recorded for the process before the target in the session
find_prev_after_head_commit(s, session_id, target_process_id, repo_id) ==
    LET prev == {p \in {s.procs[i] : i \in 1..Len(s.procs)} :
                    p.session_id = session_id /\ p.id < target_process_id}
        last_prev == CHOOSE p \in prev : \A q \in prev : q.id <= p.id
        states == {r \in s.repoStates :
                      r.execution_process_id = last_prev.id /\ r.repo_id = repo_id}
    IN  IF prev = {} \/ states = {} THEN None
        ELSE (CHOOSE r \in states : TRUE).after_head_commit

\* the commit reset_session_to_process reconciles the worktree of a repo to
reset_target_oid(s, session_id, target_process_id, repo_id) ==
    LET states == {r \in s.repoStates :
                      r.execution_process_id = target_process_id /\ r.repo_id = repo_id}
    IN  IF states # {} /\ (CHOOSE r \in states : TRUE).before_head_commit # None
        THEN (CHOOSE r \in states : TRUE).before_head_commit
        ELSE find_prev_after_head_commit(s, session_id, target_process_id, repo_id)

\* git.reconcile_worktree_to_commit for every repo, with perform_git_reset
reconciled_heads(s, session_id, target_process_id, perform_git_reset) ==
    [n \in DOMAIN heads |->
        LET repo == repos[CHOOSE i \in 1..Len(repos) : repos[i].name = n]
            oid == reset_target_oid(s, session_id, target_process_id, repo.id)
        IN  IF perform_git_reset /\ oid # None THEN oid ELSE heads[n]]

(***************************************************************************)
(* The exit monitor of a child: the end of the process is recorded, then   *)
(* the context is finalized or its next action started.                    *)
(***************************************************************************)
exit_monitor(s, id, status, exit_code, o) ==
    LET s1 == process_ended(s, id, status, exit_code)
        p == ProcById(s1.procs, id)
    IN  IF should_finalize(p) THEN finalize_task(s1, p)
        ELSE try_start_next_action(s1, p, o)

(***************************************************************************)
(* Startup reconciliation.  env holds what the fallible calls returned:    *)
(* find_running / list (the query, FALSE: Err), update_completion and      *)
(* update (the process id whose update fails, 0: none), load_context and   *)
(* update_after (FALSE: Err), branch_oid (get_branch_oid per repo id, None *)
(* when the branch cannot be resolved).                                    *)
(***************************************************************************)
\* cleanup_orphan_executions, the body of its loop for one Running process
sweep_orphan_status_only(s, id, env) ==
    IF env.update_completion = id THEN s
    ELSE ExecutionProcess_update_completion(s, id, "Failed", None)

sweep_orphan(s, id, env) ==
    IF env.update_completion = id THEN s
    ELSE LET s1 == ExecutionProcess_update_completion(s, id, "Failed", None)
         IN  IF env.load_context /\ env.update_after
               THEN record_after_head_commits(s1, id)
               ELSE s1

RECURSIVE orphan_loop(_, _, _, _)
orphan_loop(s, running_processes, i, env) ==
    IF i > Len(running_processes) THEN s
    ELSE orphan_loop(sweep_orphan(s, running_processes[i].id, env),
                     running_processes, i + 1, env)

\* ExecutionProcess::find_running
find_running(s) == SelectSeq(s.procs, LAMBDA p : p.status = "Running")

cleanup_orphan_executions(s, env) ==
    IF ~env.find_running THEN s
    ELSE orphan_loop(s, find_running(s), 1, env)

cleanup_orphan_executions_result(env) == IF ~env.find_running THEN "Err" ELSE "Ok"

list_with_after_context(s) ==
    {[id |-> r.execution_process_id, repo_id |-> r.repo_id,
      prev_after_head_commit |->
          find_prev_after_head_commit(s,
              ProcById(s.procs, r.execution_process_id).session_id,
              r.execution_process_id, r.repo_id)]
       : r \in {x \in s.repoStates : x.after_head_commit # None}}

\* ExecutionProcess::list_missing_before_context: the repo-state rows without
\* before_head_commit and with after_head_commit, each with the after commit
\* of the previous process of its session for its repo
list_missing_before_context(s) ==
    {[id |-> r.execution_process_id, repo_id |-> r.repo_id,
      prev_after_head_commit |->
          find_prev_after_head_commit(s,
              ProcById(s.procs, r.execution_process_id).session_id,
              r.execution_process_id, r.repo_id)]
       : r \in {x \in s.repoStates :
                   x.before_head_commit = None /\ x.after_head_commit # None}}

\* the commit chosen for a row: the previous after commit, else the oid of
\* the target branch (None when it cannot be resolved)
backfill_before_branch_only(row, env) == env.branch_oid[row.repo_id]

backfill_before(row, env) ==
    IF row.prev_after_head_commit # None THEN row.prev_after_head_commit
    ELSE env.branch_oid[row.repo_id]

backfill_before_head_commits(s, env) ==
    LET rows == list_missing_before_context(s)
        row_of(r) == CHOOSE row \in rows :
                        row.id = r.execution_process_id /\ row.repo_id = r.repo_id
        listed(r) == \E row \in rows :
                        row.id = r.execution_process_id /\ row.repo_id = r.repo_id
    IN  IF ~env.list THEN s
        ELSE [s EXCEPT !.repoStates =
                {IF /\ listed(r)
                    /\ backfill_before(row_of(r), env) # None
                    /\ env.update # r.execution_process_id
                 THEN [r EXCEPT !.before_head_commit = backfill_before(row_of(r), env)]
                 ELSE r : r \in @}]

backfill_before_head_commits_result(env) == IF ~env.list THEN "Err" ELSE "Ok"

\* the placeholder name of a repo migrated without one
NeedsNameFix == "__NEEDS_BACKFILL__"

\* repo.path.file_name()
file_name(repo) == RepoNames[repo.id]

\* backfill_repo_names: the repos after the call; the loop ends at the first
\* update_name that fails
RECURSIVE backfill_repo_names(_, _, _)
backfill_repo_names(rs, i, env) ==
    IF ~env.list \/ i > Len(rs) THEN rs
    ELSE IF rs[i].name # NeedsNameFix THEN backfill_repo_names(rs, i + 1, env)
    ELSE IF env.update = rs[i].id THEN rs
    ELSE backfill_repo_names([rs EXCEPT ![i].name = file_name(rs[i])], i + 1, env)

backfill_repo_names_result(rs, env) ==
    IF ~env.list THEN "Err"
    ELSE IF \E i \in 1..Len(rs) : rs[i].name = NeedsNameFix /\ env.update = rs[i].id
           THEN "Err"
    ELSE "Ok"

(***************************************************************************)
(* spawn_stream_raw_logs_to_storage: the task that drains the MsgStore of  *)
(* an execution into its log file.  The state of the task is its position  *)
(* in its stream, history_plus_stream(): the history of the store at the   *)
(* subscription (snapshot messages) and then every later push.  The task   *)
(* holds the store itself, so the stream lives on when the store is taken  *)
(* out of msg_stores.                                                      *)
(***************************************************************************)
Ready == [kind |-> "Ready", content |-> None]
SessionId(agent_session_id) == [kind |-> "SessionId", content |-> agent_session_id]
MessageId(agent_message_id) == [kind |-> "MessageId", content |-> agent_message_id]
Finished == [kind |-> "Finished", content |-> None]

\* CodingAgentTurn::update_agent_session_id / update_agent_message_id
CodingAgentTurn_update(s, execution_id, field, value) ==
    [s EXCEPT !.turns =
        {IF turn.execution_process_id # execution_id THEN turn
         ELSE IF field = "agent_session_id" THEN [turn EXCEPT !.agent_session_id = value]
         ELSE [turn EXCEPT !.agent_message_id = value] : turn \in @}]

\* the messages the task appends to the file
drain_writes_stdout_only(msg) == msg.kind = "Stdout"

drain_writes_patches_too(msg) == msg.kind \in {"Stdout", "Stderr", "JsonPatch", "Ready"}

drain_writes(msg) == msg.kind \in {"Stdout", "Stderr"}

\* the calls of the loop that may return Err
drain_fallible(msg) == msg.kind \in {"Stdout", "Stderr", "SessionId", "MessageId"}

\* the body of the task's loop for one message of its stream; ok is whether
\* append_jsonl_line or the update of the turn worked
drain_message(s, session_id, execution_id, msg, ok) ==
    IF drain_writes(msg) THEN append_log_message(s, session_id, execution_id, msg, ok)
    ELSE IF msg.kind = "SessionId" /\ ok
           THEN CodingAgentTurn_update(s, execution_id, "agent_session_id", msg.content)
    ELSE IF msg.kind = "MessageId" /\ ok
           THEN CodingAgentTurn_update(s, execution_id, "agent_message_id", msg.content)
    ELSE s

\* the task after its first steps: the log writer is created (ok) and the
\* store looked up in msg_stores; without either the task returns
drain_subscribed(s, execution_id, ok) ==
    IF ok /\ execution_id \in DOMAIN s.msgStores
      THEN [pc |-> "streaming", pos |-> 0, history |-> s.msgStores[execution_id],
            snapshot |-> Len(s.msgStores[execution_id]), failed |-> FALSE]
      ELSE [pc |-> "returned", pos |-> 0, history |-> <<>>, snapshot |-> 0,
            failed |-> ~ok]

\* the task after the next message of its stream
drain_advanced_until_error(stream, ok) ==
    LET msg == stream.history[stream.pos + 1]
    IN  [stream EXCEPT !.pos = @ + 1,
                       !.pc = IF msg.kind = "Finished" THEN "ended"
                              ELSE IF drain_fallible(msg) /\ ~ok THEN "returned"
                              ELSE @,
                       !.failed = @ \/ (drain_writes(msg) /\ ~ok)]

drain_advanced(stream, ok) ==
    LET msg == stream.history[stream.pos + 1]
    IN  [stream EXCEPT !.pos = @ + 1,
                       !.pc = IF msg.kind = "Finished" THEN "ended" ELSE @,
                       !.failed = @ \/ (drain_writes(msg) /\ ~ok)]

\* MsgStore::push seen from a stream on that store
stream_pushed(ss, execution_id, msg) ==
    [k \in DOMAIN ss |->
        IF k = execution_id /\ ss[k].pc = "streaming"
          THEN [ss[k] EXCEPT !.history = Append(@, msg)]
          ELSE ss[k]]

(***************************************************************************)
(* Log replay.  An Option<Vec<LogMsg>> is [found, messages], an            *)
(* Option<stream> is [some, items]: the items the stream yields until it   *)
(* ends.  future is what is pushed to a live store after the call, up to   *)
(* its Finished.                                                           *)
(***************************************************************************)
NotFound == [found |-> FALSE, messages |-> <<>>]
Found(messages) == [found |-> TRUE, messages |-> messages]
NoStream == [some |-> FALSE, items |-> <<>>]
SomeStream(items) == [some |-> TRUE, items |-> items]

\* MsgStore::history_plus_stream: the history, then every later push, up to
\* and with the first Finished
history_plus_stream(history, future) ==
    LET all == history \o future
        ends == {i \in 1..Len(all) : all[i].kind = "Finished"}
    IN  IF ends = {} THEN all
        ELSE SubSeq(all, 1, CHOOSE i \in ends : \A j \in ends : i <= j)

\* utils::execution_logs::parse_log_jsonl_lossy: one LogMsg per line
parse_log_jsonl_lossy(jsonl) ==
    [i \in 1..Len(jsonl) |-> [kind |-> jsonl[i][2], content |-> jsonl[i][4]]]

\* read_execution_logs_for_execution: the content of the log file of the
\* execution, when its row and its file exist
read_execution_logs_for_execution(s, execution_id) ==
    IF ~HasProc(s.procs, execution_id) THEN NotFound
    ELSE LET path == <<ProcById(s.procs, execution_id).session_id, execution_id>>
         IN  IF path \in DOMAIN s.logFile THEN Found(s.logFile[path]) ELSE NotFound

\* ExecutionProcessLogs::find_by_execution_id and parse_logs
legacy_messages(legacy, execution_id) ==
    parse_log_jsonl_lossy(
        [i \in 1..Len(SelectSeq(legacy, LAMBDA r : r.execution_id = execution_id)) |->
            SelectSeq(legacy, LAMBDA r : r.execution_id = execution_id)[i].logs])

load_raw_log_messages(s, legacy, execution_id) ==
    LET jsonl == read_execution_logs_for_execution(s, execution_id)
    IN  IF jsonl.found /\ parse_log_jsonl_lossy(jsonl.messages) # <<>>
          THEN Found(parse_log_jsonl_lossy(jsonl.messages))
        ELSE IF legacy_messages(legacy, execution_id) = <<>> THEN NotFound
        ELSE Found(legacy_messages(legacy, execution_id))

stream_raw_logs(s, legacy, id, future) ==
    IF id \in DOMAIN s.msgStores
      THEN SomeStream(SelectSeq(history_plus_stream(s.msgStores[id], future),
                          LAMBDA m : m.kind \in {"Stdout", "Stderr", "Finished"}))
      ELSE LET messages == load_raw_log_messages(s, legacy, id)
           IN  IF ~messages.found THEN NoStream
               ELSE SomeStream(SelectSeq(messages.messages,
                                   LAMBDA m : m.kind \in {"Stdout", "Stderr"})
                               \o <<Finished>>)

\* Executor::normalize_logs on a store: the patches it pushes, one for each
\* Stdout or Stderr message of the store
normalize_logs(store) ==
    LET raw == SelectSeq(store, LAMBDA m : m.kind \in {"Stdout", "Stderr"})
    IN  [i \in 1..Len(raw) |-> JsonPatch(add_normalized_entry(i - 1, raw[i].kind))]

\* stream_normalized_logs: from the live store, or from the messages on disk
\* replayed into a temporary store that is closed and then normalized
stream_normalized_logs(s, legacy, id, future) ==
    IF id \in DOMAIN s.msgStores
      THEN SomeStream(SelectSeq(history_plus_stream(s.msgStores[id], future),
                                LAMBDA m : m.kind = "JsonPatch") \o <<Finished>>)
      ELSE LET raw_messages == load_raw_log_messages(s, legacy, id)
               temp_store ==
                   SelectSeq(raw_messages.messages,
                             LAMBDA m : m.kind \in {"Stdout", "Stderr", "JsonPatch"})
                       \o <<Finished>>
           IN  IF ~raw_messages.found THEN NoStream
               ELSE IF ~HasProc(s.procs, id) THEN NoStream
               ELSE IF ~IsCodingAgentTyp(typ(ProcById(s.procs, id).executor_action))
               THEN NoStream
               ELSE SomeStream(
                        SelectSeq(history_plus_stream(temp_store,
                                                      normalize_logs(temp_store)),
                                  LAMBDA m : m.kind = "JsonPatch") \o <<Finished>>)

(***************************************************************************)
(* State after construction, and how a handler's result is installed.      *)
(***************************************************************************)
RepoNameSet == {repos[i].name : i \in 1..Len(repos)}

NoCall == [op |-> "init", id |-> 0, ret |-> None, calls |-> <<>>]

Called(op, id, ret, calls) == [op |-> op, id |-> id, ret |-> ret, calls |-> calls]

\* a call together with what its fallible steps returned
CalledWith(op, env, ret, calls) ==
    [op |-> op, id |-> 0, ret |-> ret, calls |-> calls, env |-> env]

TwoRepos == <<Repo(1, TRUE, FALSE, TRUE, TRUE), Repo(2, TRUE, TRUE, FALSE, TRUE)>>

\* no reset_session_to_process call in progress
NoReset == [pc |-> "idle"]

\* no legacy log rows, no temporary file, the migration not running
NoMigration ==
    /\ legacyLogs = <<>>
    /\ tmpFiles = <<>>
    /\ migration = [pc |-> "idle"]

InitRows ==
    /\ procs = <<>>
    /\ repoStates = {}
    /\ turns = {}
    /\ logFile = <<>>
    /\ msgStores = <<>>
    /\ children = {}
    /\ normalizers = {}
    /\ drains = {}
    /\ notifications = <<>>
    /\ nextId = 1
    /\ streams = <<>>
    /\ NoMigration
    /\ resetTask = NoReset
    /\ last = NoCall

EmptyStore ==
    [ws |-> None, sessions |-> <<>>, procs |-> <<>>, repoStates |-> {}, turns |-> {},
     logFile |-> <<>>, msgStores |-> <<>>, children |-> {}, normalizers |-> {},
     drains |-> {}, notifications |-> <<>>, nextId |-> 1, calls |-> <<>>]

Installed(s) ==
    /\ sessions = s.sessions
    /\ procs = s.procs
    /\ repoStates = s.repoStates
    /\ turns = s.turns
    /\ logFile = s.logFile
    /\ msgStores = s.msgStores
    /\ children = s.children
    /\ normalizers = s.normalizers
    /\ drains = s.drains
    /\ notifications = s.notifications
    /\ nextId = s.nextId
    /\ streams = <<>>
    /\ NoMigration
    /\ resetTask = NoReset

Install(s) ==
    /\ ws' = s.ws
    /\ sessions' = s.sessions
    /\ procs' = s.procs
    /\ repoStates' = s.repoStates
    /\ turns' = s.turns
    /\ logFile' = s.logFile
    /\ msgStores' = s.msgStores
    /\ children' = s.children
    /\ normalizers' = s.normalizers
    /\ drains' = s.drains
    /\ notifications' = s.notifications
    /\ nextId' = s.nextId

(***************************************************************************)
(* SpecStart: start_execution called by its callers (the routes, the       *)
(* workspace lifecycle) with the actions and run reasons they pass, in two *)
(* sessions of the workspace, while the worktrees' HEADs move.             *)
(***************************************************************************)
MaxStarts == 2

TwoSessions ==
    <<[id |-> 1, workspace_id |-> 1, executor |-> "CLAUDE_CODE"],
      [id |-> 2, workspace_id |-> 1, executor |-> None]>>

StartCalls ==
    {[session_id |-> 1,
      action |-> <<ScriptRequest("setup.sh", "SetupScript", "a")>>,
      run_reason |-> "SetupScript"],
     [session_id |-> 2,
      action |-> <<CodingAgentRequest("CodingAgentInitialRequest", "hi"),
                   ScriptRequest("cleanup.sh", "CleanupScript", "a")>>,
      run_reason |-> "CodingAgent"],
     [session_id |-> 2,
      action |-> <<ScriptRequest("archive.sh", "ArchiveScript", "a")>>,
      run_reason |-> "ArchiveScript"]}

InitStart ==
    /\ repos \in {<<>>, TwoRepos}
    /\ ws \in [id : {1}, name : {"ws"}, branch : {"vk/br"},
               container_ref : {None, "/c"}, archived : {TRUE}]
    /\ heads = [n \in RepoNameSet |-> "c0"]
    /\ InitRows
    /\ sessions = TwoSessions

\* o names no step the call does not reach and no flag it does not read
Applies(o, executor_action, run_reason) ==
    /\ o.fail = "set_archived" => run_reason # "ArchiveScript"
    /\ o.fail = "turn" => IsCodingAgentTyp(typ(executor_action))
    /\ ~o.profile => IsCodingAgentTyp(typ(executor_action))

CallStartExecution(call, o) ==
    /\ nextId <= MaxStarts
    /\ Applies(o, call.action, call.run_reason)
    /\ LET s == start_execution(Store, call.session_id, call.action, call.run_reason, o)
       IN  /\ Install(s)
           /\ last' = Called("start_execution", s.calls[1].id, s.calls[1].result, s.calls)
    /\ UNCHANGED <<repos, heads, streams, logMigration, resetTask>>

HeadMoves == Cardinality({n \in DOMAIN heads : heads[n] # "c0"})

MoveHead(n, oid) ==
    /\ HeadMoves < MaxHeadMoves
    /\ heads[n] = "c0"
    /\ heads' = [heads EXCEPT ![n] = oid]
    /\ last' = Called("move_head", 0, None, <<>>)
    /\ UNCHANGED <<repos, ws, sessions, procs, repoStates, turns, logFile, msgStores,
                   children, normalizers, drains, notifications, nextId, streams,
                   logMigration, resetTask>>

\* the outcomes in which every write of the failure path succeeds and the
\* profile resolves; of the spawn failures, the plain one
PlainOutcomes ==
    {o \in Outcomes : /\ o.update /\ o.append /\ o.append_patch /\ o.profile
                      /\ o.fail # "ExecutableNotFound"}

NextStart ==
    \/ \E call \in StartCalls, o \in PlainOutcomes : CallStartExecution(call, o)
    \/ \E n \in DOMAIN heads, oid \in (Oids \ {"c0"}) \cup {None} : MoveHead(n, oid)

SpecStart == InitStart /\ [][NextStart]_vars

(***************************************************************************)
(* SpecStartFail: start_execution under every outcome of its fallible      *)
(* calls, the writes of its failure path included.                         *)
(***************************************************************************)
NextStartFail ==
    \E call \in StartCalls, o \in Outcomes : CallStartExecution(call, o)

SpecStartFail == InitStart /\ [][NextStartFail]_vars

(***************************************************************************)
(* SpecCtx: the trait's operations on an ExecutionContext.  An execution   *)
(* has been started with an action and a run reason a caller can pass; it  *)
(* and the executions of its chain end with any status, and                *)
(* should_finalize, finalize_task and try_start_next_action are called on  *)
(* the context of any of them.                                             *)
(***************************************************************************)
MaxNotifications == 1

SetupA == ScriptRequest("setup.sh", "SetupScript", "a")
CleanupA == ScriptRequest("cleanup.sh", "CleanupScript", "a")
CleanupB == ScriptRequest("cleanup.sh", "CleanupScript", "b")
ArchiveA == ScriptRequest("archive.sh", "ArchiveScript", "a")
ArchiveB == ScriptRequest("archive.sh", "ArchiveScript", "b")
DevScript == ScriptRequest("dev.sh", "DevServer", "a")
Initial == CodingAgentRequest("CodingAgentInitialRequest", "hi")
FollowUp == CodingAgentRequest("CodingAgentFollowUpRequest", "fix")
Review == CodingAgentRequest("ReviewRequest", "look")

CtxCall(session_id, run_reason, action) ==
    [session_id |-> session_id, action |-> action, run_reason |-> run_reason]

CtxCalls ==
    {CtxCall(1, "SetupScript", <<SetupA>>),
     CtxCall(2, "SetupScript", <<SetupA, Initial, CleanupA>>),
     CtxCall(1, "CodingAgent", <<FollowUp>>),
     CtxCall(2, "CodingAgent", <<FollowUp, CleanupA>>),
     CtxCall(1, "CodingAgent", <<Review, CleanupA>>),
     CtxCall(2, "CodingAgent", <<Initial, Review>>),
     CtxCall(1, "CleanupScript", <<CleanupB>>),
     CtxCall(2, "CleanupScript", <<CleanupA, CleanupB>>),
     CtxCall(1, "ArchiveScript", <<ArchiveB>>),
     CtxCall(2, "ArchiveScript", <<ArchiveA, ArchiveB>>),
     CtxCall(1, "DevServer", <<DevScript>>),
     CtxCall(2, "DevServer", <<DevScript, FollowUp>>)}

InitCtx ==
    /\ repos = TwoRepos
    /\ ws \in [id : {1}, name : {None, "ws"}, branch : {"vk/br"},
               container_ref : {"/c"}, archived : {FALSE}]
    /\ heads = [n \in RepoNameSet |-> "c0"]
    /\ \E call \in CtxCalls :
           LET s == start_execution([EmptyStore EXCEPT !.ws = ws, !.sessions = TwoSessions],
                                    call.session_id, call.action, call.run_reason, AllGood)
           IN  /\ Installed(s)
               /\ last = Called("start_execution", s.calls[1].id, s.calls[1].result,
                                s.calls)

ChildExits(id, status, exit_code) ==
    /\ id \in children
    /\ ProcById(procs, id).status = "Running"
    /\ Install(process_ended(Store, id, status, exit_code))
    /\ last' = Called("child_exit", id, None, <<>>)
    /\ UNCHANGED <<repos, heads, streams, logMigration, resetTask>>

CallStopExecution(id) ==
    /\ HasProc(procs, id)
    /\ Install(stop_execution(Store, id, "Killed"))
    /\ last' = Called("stop_execution", id, "Ok", <<>>)
    /\ UNCHANGED <<repos, heads, streams, logMigration, resetTask>>

CallShouldFinalize(id) ==
    /\ HasProc(procs, id)
    /\ last' = Called("should_finalize", id, should_finalize(ProcById(procs, id)), <<>>)
    /\ UNCHANGED <<repos, ws, sessions, procs, repoStates, turns, logFile, heads,
                   msgStores, children, normalizers, drains, notifications, nextId,
                   streams,
                   logMigration, resetTask>>

CallFinalizeTask(id) ==
    /\ HasProc(procs, id)
    /\ Len(notifications) < MaxNotifications
    /\ Install(finalize_task(Store, ProcById(procs, id)))
    /\ last' = Called("finalize_task", id, None, <<>>)
    /\ UNCHANGED <<repos, heads, streams, logMigration, resetTask>>

CallTryStartNextAction(id, o) ==
    /\ HasProc(procs, id)
    /\ nextId <= MaxProcs
    /\ LET p == ProcById(procs, id)
           s == try_start_next_action(Store, p, o)
       IN  /\ next_action(p.executor_action) # <<>>
               => Applies(o, next_action(p.executor_action),
                          next_run_reason(typ(p.executor_action),
                                          typ(next_action(p.executor_action))))
           /\ next_action(p.executor_action) = <<>> => o = AllGood
           /\ Install(s)
           /\ last' = Called("try_start_next_action", id, Propagated(s.calls), s.calls)
    /\ UNCHANGED <<repos, heads, streams, logMigration, resetTask>>

CtxOutcomes ==
    {AllGood, Outcome("create", TRUE, TRUE, TRUE, TRUE),
     Outcome("SpawnFailed", TRUE, TRUE, TRUE, TRUE)}

ProcIds == {procs[i].id : i \in 1..Len(procs)}

NextCtx ==
    \/ \E id \in ProcIds : ChildExits(id, "Completed", "0")
    \/ \E id \in ProcIds : ChildExits(id, "Failed", "1")
    \/ \E id \in ProcIds : CallStopExecution(id)
    \/ \E id \in ProcIds : CallShouldFinalize(id)
    \/ \E id \in ProcIds : CallFinalizeTask(id)
    \/ \E id \in ProcIds, o \in CtxOutcomes : CallTryStartNextAction(id, o)

SpecCtx == InitCtx /\ [][NextCtx]_vars

(***************************************************************************)
(* SpecWorkspace: start_workspace on a workspace of up to MaxRepos repos,  *)
(* each with or without a setup script (sequential or parallel) and a      *)
(* cleanup script, under the outcomes of its fallible calls.               *)
(***************************************************************************)
RepoConfigs ==
    {Repo(i, setup, parallel, cleanup, TRUE) :
        i \in 1..MaxRepos, setup \in BOOLEAN, parallel \in BOOLEAN, cleanup \in BOOLEAN}

RepoLists ==
    UNION {{rs \in [1..n -> RepoConfigs] :
               \A i \in 1..n : rs[i].id = i /\ (rs[i].parallel_setup_script
                                                   => rs[i].setup_script # None)} :
           n \in 0..MaxRepos}

WorkspaceOutcomes ==
    {AllGood, Outcome("create", TRUE, TRUE, TRUE, TRUE),
     Outcome("SpawnFailed", TRUE, TRUE, TRUE, TRUE)}

InitWorkspace ==
    /\ repos \in RepoLists
    /\ ws = [id |-> 1, name |-> "ws", branch |-> "vk/br", container_ref |-> None,
             archived |-> FALSE]
    /\ heads = [n \in RepoNameSet |-> "c0"]
    /\ InitRows
    /\ sessions = <<>>

\* the number of start_execution calls start_workspace makes when every
\* call it makes is reached
StartCallCount ==
    LET with == SelectSeq(repos, LAMBDA r : r.setup_script # None)
    IN  IF all_parallel(with) THEN Len(with) + 1 ELSE 1

\* start_workspace is called for a workspace that has just been created:
\* its container does not exist yet
CallStartWorkspace(pre, outs) ==
    /\ ws.container_ref = None
    /\ pre # "None" => \A i \in DOMAIN outs : outs[i] = AllGood
    /\ LET s == start_workspace(Store, "CLAUDE_CODE", "hi", pre, outs)
       IN  /\ Install(s)
           /\ last' = Called("start_workspace",
                             IF pre = "None" THEN s.calls[Len(s.calls)].id ELSE 0,
                             start_workspace_result(pre, s.calls), s.calls)
    /\ UNCHANGED <<repos, heads, streams, logMigration, resetTask>>

NextWorkspace ==
    \E pre \in WorkspaceFailures, outs \in [1..StartCallCount -> WorkspaceOutcomes] :
        CallStartWorkspace(pre, outs)

SpecWorkspace == InitWorkspace /\ [][NextWorkspace]_vars

(***************************************************************************)
(* SpecLifecycle: the life of a workspace.  start_workspace, the exit      *)
(* monitor continuing or finalizing chains, dev servers and follow-ups     *)
(* started by start_execution, try_run_archive_script, stop_execution,     *)
(* try_stop and reset_session_to_process, one handler at a time.           *)
(***************************************************************************)
MaxLifeProcs == 3
MaxWorkspaceStarts == 1

ParallelRepo == <<Repo(1, TRUE, TRUE, TRUE, TRUE)>>

LifeOutcomes == {AllGood, Outcome("set_archived", TRUE, TRUE, TRUE, TRUE)}

InitLifecycle ==
    /\ repos \in {ParallelRepo, TwoRepos}
    /\ ws = [id |-> 1, name |-> "ws", branch |-> "vk/br", container_ref |-> None,
             archived |-> FALSE]
    /\ heads = [n \in RepoNameSet |-> "c0"]
    /\ InitRows
    /\ sessions = <<>>

Returns(op, s, ret) ==
    /\ Install(s)
    /\ last' = Called(op, 0, ret, <<>>)

\* the Running processes of a session that are not dev servers
RunningIn(ps, session_id) ==
    {i \in 1..Len(ps) : /\ ps[i].session_id = session_id
                        /\ ps[i].status = "Running"
                        /\ ps[i].run_reason # "DevServer"}

LifeStartWorkspace(outs) ==
    /\ Len(sessions) < MaxWorkspaceStarts
    /\ nextId + StartCallCount - 1 <= MaxLifeProcs
    /\ LET s == start_workspace(Store, "CLAUDE_CODE", "hi", "None", outs)
       IN  Returns("start_workspace", s, start_workspace_result("None", s.calls))
    /\ UNCHANGED <<repos, heads, streams, logMigration, resetTask>>

\* a route starts a dev server
LifeStartDevServer(session_id, o) ==
    /\ nextId <= MaxLifeProcs
    /\ Applies(o, <<DevScript>>, "DevServer")
    /\ LET s == start_execution(Store, session_id, <<DevScript>>, "DevServer", o)
       IN  Returns("start_execution", s, Propagated(s.calls))
    /\ UNCHANGED <<repos, heads, streams, logMigration, resetTask>>

\* a route starts a follow-up in a session in which nothing is running
LifeFollowUp(session_id, o) ==
    /\ nextId <= MaxLifeProcs
    /\ RunningIn(procs, session_id) = {}
    /\ LET action == NewAction(FollowUp, cleanup_actions_for_repos(repos))
           s == start_execution(Store, session_id, action, "CodingAgent", o)
       IN  Returns("start_execution", s, Propagated(s.calls))
    /\ UNCHANGED <<repos, heads, streams, logMigration, resetTask>>

ProcessExits(id, status, exit_code, o) ==
    /\ id \in children
    /\ ProcById(procs, id).status = "Running"
    /\ nextId <= MaxLifeProcs
    /\ LET p == ProcById(procs, id)
           s == exit_monitor(Store, id, status, exit_code, o)
       IN  /\ IF s.calls = <<>> THEN o = AllGood
              ELSE Applies(o, s.calls[1].executor_action, s.calls[1].run_reason)
           /\ Returns("exit_monitor", s, Propagated(s.calls))
    /\ UNCHANGED <<repos, heads, streams, logMigration, resetTask>>

LifeStopExecution(id) ==
    /\ HasProc(procs, id)
    /\ ProcById(procs, id).status = "Running"
    /\ Returns("stop_execution", stop_execution(Store, id, "Killed"), "Ok")
    /\ UNCHANGED <<repos, heads, streams, logMigration, resetTask>>

LifeTryStop(include_dev_server) ==
    /\ \E i \in 1..Len(procs) :
           /\ procs[i].status = "Running"
           /\ include_dev_server \/ procs[i].run_reason # "DevServer"
    /\ Returns("try_stop", try_stop(Store, include_dev_server), "Ok")
    /\ UNCHANGED <<repos, heads, streams, logMigration, resetTask>>

LifeTryRunArchiveScript(o) ==
    /\ nextId <= MaxLifeProcs
    /\ LET s == try_run_archive_script(Store, "None", o)
       IN  /\ IF s.calls = <<>> THEN o = AllGood
              ELSE Applies(o, s.calls[1].executor_action, s.calls[1].run_reason)
           /\ Returns("try_run_archive_script", s, Propagated(s.calls))
    /\ UNCHANGED <<repos, heads, streams, logMigration, resetTask>>

\* a route resets a session to one of its processes
LifeReset(session_id, target_process_id, perform_git_reset) ==
    /\ HasProc(procs, target_process_id)
    /\ ProcById(procs, target_process_id).session_id = session_id
    /\ Returns("reset_session_to_process",
               reset_session_to_process(Store, session_id, target_process_id),
               reset_session_to_process_result(Store, session_id, target_process_id))
    /\ heads' = IF reset_session_to_process_result(Store, session_id, target_process_id)
                    = "Ok"
                THEN reconciled_heads(Store, session_id, target_process_id,
                                      perform_git_reset)
                ELSE heads
    /\ UNCHANGED <<repos, streams, logMigration, resetTask>>

NextLifecycle ==
    \/ \E outs \in [1..StartCallCount -> LifeOutcomes] : LifeStartWorkspace(outs)
    \/ \E sid \in SessionIds, o \in LifeOutcomes : LifeStartDevServer(sid, o)
    \/ \E sid \in SessionIds, o \in LifeOutcomes : LifeFollowUp(sid, o)
    \/ \E id \in ProcIds, o \in LifeOutcomes : ProcessExits(id, "Completed", "0", o)
    \/ \E id \in ProcIds, o \in LifeOutcomes : ProcessExits(id, "Failed", "1", o)
    \/ \E id \in ProcIds : LifeStopExecution(id)
    \/ \E b \in BOOLEAN : LifeTryStop(b)
    \/ \E o \in LifeOutcomes : LifeTryRunArchiveScript(o)
    \/ \E sid \in SessionIds, id \in ProcIds : LifeReset(sid, id, TRUE)

SpecLifecycle == InitLifecycle /\ [][NextLifecycle]_vars

(***************************************************************************)
(* SpecArchive: try_run_archive_script and archive_workspace on a          *)
(* workspace with or without archive scripts, a container and sessions,    *)
(* while dev servers and agents are started and stopped, under the         *)
(* outcomes of their fallible calls.                                       *)
(***************************************************************************)
MaxArchiveProcs == 2

NoArchiveRepo == <<Repo(1, TRUE, FALSE, TRUE, FALSE)>>

ArchiveOutcomes ==
    {AllGood, Outcome("create", TRUE, TRUE, TRUE, TRUE),
     Outcome("SpawnFailed", TRUE, TRUE, TRUE, TRUE)}

ArchiveStartCalls ==
    {CtxCall(1, "DevServer", <<DevScript>>),
     CtxCall(2, "CodingAgent", <<FollowUp>>)}

ArchiveEnvs ==
    [set_archived : BOOLEAN, find_dev_servers : BOOLEAN, stop : BOOLEAN,
     pre : ArchiveFailures, o : ArchiveOutcomes]

InitArchive ==
    /\ repos \in {TwoRepos, NoArchiveRepo}
    /\ ws \in [id : {1}, name : {"ws"}, branch : {"vk/br"},
               container_ref : {None, "/c"}, archived : {FALSE}]
    /\ heads = [n \in RepoNameSet |-> "c0"]
    /\ InitRows
    /\ sessions \in {<<>>, TwoSessions}

ArchiveStart(call) ==
    /\ nextId <= MaxArchiveProcs
    /\ call.session_id \in SessionIds
    /\ LET s == start_execution(Store, call.session_id, call.action, call.run_reason,
                                AllGood)
       IN  /\ Install(s)
           /\ last' = Called("start_execution", s.calls[1].id, s.calls[1].result, s.calls)
    /\ UNCHANGED <<repos, heads, streams, logMigration, resetTask>>

ArchiveStop(id) ==
    /\ HasProc(procs, id)
    /\ ProcById(procs, id).status = "Running"
    /\ Install(stop_execution(Store, id, "Killed"))
    /\ last' = Called("stop_execution", id, "Ok", <<>>)
    /\ UNCHANGED <<repos, heads, streams, logMigration, resetTask>>

CallTryRunArchiveScript(pre, o) ==
    /\ nextId <= MaxArchiveProcs
    /\ LET s == try_run_archive_script(Store, pre, o)
       IN  /\ s.calls = <<>> => o = AllGood
           /\ Install(s)
           /\ last' = CalledWith("try_run_archive_script", [pre |-> pre, o |-> o],
                                 try_run_archive_script_result(Store, pre, o), s.calls)
    /\ UNCHANGED <<repos, heads, streams, logMigration, resetTask>>

CallArchiveWorkspace(env) ==
    /\ nextId <= MaxArchiveProcs
    /\ LET s == archive_workspace(Store, env)
       IN  /\ s.calls = <<>> => env.o = AllGood
           /\ ~env.set_archived =>
                  env.find_dev_servers /\ env.stop /\ env.pre = "None"
           /\ Install(s)
           /\ last' = CalledWith("archive_workspace", env, archive_workspace_result(env),
                                 s.calls)
    /\ UNCHANGED <<repos, heads, streams, logMigration, resetTask>>

NextArchive ==
    \/ \E call \in ArchiveStartCalls : ArchiveStart(call)
    \/ \E id \in ProcIds : ArchiveStop(id)
    \/ \E pre \in ArchiveFailures, o \in ArchiveOutcomes : CallTryRunArchiveScript(pre, o)
    \/ \E env \in ArchiveEnvs : CallArchiveWorkspace(env)

SpecArchive == InitArchive /\ [][NextArchive]_vars

(***************************************************************************)
(* SpecStartup: the startup reconciliation calls on a database left by an  *)
(* earlier run: process rows that are still Running or ended, repo states  *)
(* with or without their commits, repos with or without a name.            *)
(***************************************************************************)
MaxStartupProcs == 2

LegacyRows ==
    [status : {"Running", "Completed"}, run_reason : {"CodingAgent", "DevServer"},
     session_id : {1, 2}, before : {None, "c0"}, after : {None, "c1"}]

\* container_ref, the HEAD of the two worktrees, and which repos have a name
StartupWorlds ==
    {[container_ref |-> "/c", heads |-> <<"c1", None>>, named |-> <<TRUE, TRUE>>],
     [container_ref |-> "/c", heads |-> <<"c1", "c1">>, named |-> <<TRUE, FALSE>>],
     [container_ref |-> None, heads |-> <<"c1", "c1">>, named |-> <<FALSE, FALSE>>]}

OrphanEnvs ==
    {[find_running |-> TRUE, update_completion |-> 0, load_context |-> TRUE,
      update_after |-> TRUE],
     [find_running |-> FALSE, update_completion |-> 0, load_context |-> TRUE,
      update_after |-> TRUE],
     [find_running |-> TRUE, update_completion |-> 1, load_context |-> TRUE,
      update_after |-> TRUE],
     [find_running |-> TRUE, update_completion |-> 0, load_context |-> FALSE,
      update_after |-> TRUE],
     [find_running |-> TRUE, update_completion |-> 0, load_context |-> TRUE,
      update_after |-> FALSE]}

BackfillEnvs ==
    {[list |-> TRUE, update |-> 0, branch_oid |-> <<"b0", "b0">>],
     [list |-> TRUE, update |-> 0, branch_oid |-> <<"b0", None>>],
     [list |-> TRUE, update |-> 0, branch_oid |-> <<None, None>>],
     [list |-> FALSE, update |-> 0, branch_oid |-> <<"b0", "b0">>],
     [list |-> TRUE, update |-> 1, branch_oid |-> <<"b0", "b0">>]}

RepoNameEnvs ==
    {[list |-> TRUE, update |-> 0], [list |-> FALSE, update |-> 0],
     [list |-> TRUE, update |-> 1], [list |-> TRUE, update |-> 2]}

InitStartup ==
    \E n \in 1..MaxStartupProcs, world \in StartupWorlds :
       \E rows \in [1..n -> LegacyRows] :
          /\ rows[1].session_id = 1
          /\ \A i \in 1..n :
                rows[i].status = "Running" \/ rows[i].run_reason = "CodingAgent"
          /\ repos = [i \in 1..2 |->
                        [TwoRepos[i] EXCEPT
                            !.name = IF world.named[i] THEN @ ELSE NeedsNameFix]]
          /\ ws = [id |-> 1, name |-> "ws", branch |-> "vk/br",
                   container_ref |-> world.container_ref, archived |-> FALSE]
          /\ heads = (RepoNames[1] :> world.heads[1]) @@ (RepoNames[2] :> world.heads[2])
          /\ last = NoCall
          /\ Installed([EmptyStore EXCEPT
                !.sessions = TwoSessions,
                !.nextId = n + 1,
                !.procs = [i \in 1..n |->
                    [id |-> i, session_id |-> rows[i].session_id,
                     status |-> rows[i].status, run_reason |-> rows[i].run_reason,
                     executor_action |-> IF rows[i].run_reason = "DevServer"
                                           THEN <<DevScript>> ELSE <<FollowUp>>,
                     exit_code |-> IF rows[i].status = "Running" THEN None ELSE "0"]],
                !.repoStates =
                    {[execution_process_id |-> i, repo_id |-> 1,
                      before_head_commit |-> rows[i].before,
                      after_head_commit |-> rows[i].after,
                      merge_commit |-> None] : i \in 1..n}
                    \cup
                    {[execution_process_id |-> i, repo_id |-> 2,
                      before_head_commit |-> None, after_head_commit |-> "c0",
                      merge_commit |-> None] : i \in 1..n}])

\* each call is made once, when the service starts
CallCleanupOrphanExecutions(env) ==
    /\ last.op = "init"
    /\ Install(cleanup_orphan_executions(Store, env))
    /\ last' = CalledWith("cleanup_orphan_executions", env,
                          cleanup_orphan_executions_result(env), <<>>)
    /\ UNCHANGED <<repos, heads, streams, logMigration, resetTask>>

CallBackfillBeforeHeadCommits(env) ==
    /\ last.op = "init"
    /\ Install(backfill_before_head_commits(Store, env))
    /\ last' = CalledWith("backfill_before_head_commits", env,
                          backfill_before_head_commits_result(env), <<>>)
    /\ UNCHANGED <<repos, heads, streams, logMigration, resetTask>>

CallBackfillRepoNames(env) ==
    /\ last.op = "init"
    /\ repos' = backfill_repo_names(repos, 1, env)
    /\ last' = CalledWith("backfill_repo_names", env,
                          backfill_repo_names_result(repos, env), <<>>)
    /\ UNCHANGED <<ws, sessions, procs, repoStates, turns, logFile, heads, msgStores,
                   children, normalizers, drains, notifications, nextId, streams,
                   logMigration, resetTask>>

NextStartup ==
    \/ \E env \in OrphanEnvs : CallCleanupOrphanExecutions(env)
    \/ \E env \in BackfillEnvs : CallBackfillBeforeHeadCommits(env)
    \/ \E env \in RepoNameEnvs : CallBackfillRepoNames(env)

SpecStartup == InitStartup /\ [][NextStartup]_vars

(***************************************************************************)
(* SpecDrain: one execution is started; its child and its normalizer push  *)
(* messages, its drain task subscribes at some point and consumes its      *)
(* stream, the child ends; writes to the log file may fail.                *)
(***************************************************************************)
MaxMsgs == 3

PushedMsgs ==
    <<Stdout("o"), Stderr("e"), JsonPatch(add_normalized_entry(0, "entry")), Ready,
      SessionId("s1"), MessageId("m1")>>

DrainCalls ==
    {CtxCall(1, "CodingAgent", <<Initial>>), CtxCall(2, "SetupScript", <<SetupA>>)}

DrainOutcomes == {AllGood, Outcome("ExecutableNotFound", TRUE, TRUE, TRUE, TRUE)}

InitDrain ==
    /\ repos = TwoRepos
    /\ ws = [id |-> 1, name |-> "ws", branch |-> "vk/br", container_ref |-> "/c",
             archived |-> FALSE]
    /\ heads = [n \in RepoNameSet |-> "c0"]
    /\ \E call \in DrainCalls, o \in DrainOutcomes :
           LET s == start_execution([EmptyStore EXCEPT !.ws = ws, !.sessions = TwoSessions],
                                    call.session_id, call.action, call.run_reason, o)
           IN  /\ Installed(s)
               /\ last = Called("start_execution", s.calls[1].id, s.calls[1].result,
                                s.calls)

\* the child or the normalizer pushes a message
Push(id, msg) ==
    /\ id \in DOMAIN msgStores
    /\ Len(msgStores[id]) < MaxMsgs
    /\ msgStores' = [msgStores EXCEPT ![id] = Append(@, msg)]
    /\ streams' = stream_pushed(streams, id, msg)
    /\ last' = Called("push", id, None, <<>>)
    /\ UNCHANGED <<repos, ws, sessions, procs, repoStates, turns, logFile, heads,
                   children, normalizers, drains, notifications, nextId,
                   logMigration, resetTask>>

\* the child exits: its exit monitor records the end, takes the store out of
\* msg_stores and closes it with push_finished
DrainChildExits(id) ==
    /\ id \in DOMAIN msgStores
    /\ id \in children
    /\ Install(exit_monitor(Store, id, "Completed", "0", AllGood))
    /\ streams' = stream_pushed(streams, id, Finished)
    /\ last' = Called("child_exit", id, None, <<>>)
    /\ UNCHANGED <<repos, heads, logMigration, resetTask>>

DrainSubscribes(id, ok) ==
    /\ id \in drains
    /\ id \notin DOMAIN streams
    /\ streams' = (id :> drain_subscribed(Store, id, ok)) @@ streams
    /\ last' = Called("drain_subscribes", id, None, <<>>)
    /\ UNCHANGED <<repos, ws, sessions, procs, repoStates, turns, logFile, heads,
                   msgStores, children, normalizers, drains, notifications, nextId,
                   logMigration, resetTask>>

DrainStep(id, ok) ==
    /\ id \in DOMAIN streams
    /\ streams[id].pc = "streaming"
    /\ streams[id].pos < Len(streams[id].history)
    /\ ok \/ drain_fallible(streams[id].history[streams[id].pos + 1])
    /\ Install(drain_message(Store, ProcById(procs, id).session_id, id,
                             streams[id].history[streams[id].pos + 1], ok))
    /\ streams' = [streams EXCEPT ![id] = drain_advanced(@, ok)]
    /\ last' = Called("drain_step", id, IF ok THEN "Ok" ELSE "Err", <<>>)
    /\ UNCHANGED <<repos, heads, logMigration, resetTask>>

\* a client asks for the raw logs of an execution
CallStreamRawLogs(id) ==
    /\ last.op # "stream_raw_logs"
    /\ last' = Called("stream_raw_logs", id,
                      IF id \in DOMAIN msgStores THEN "live"
                      ELSE IF stream_raw_logs(Store, legacyLogs, id, <<>>).some THEN "disk"
                      ELSE "None", <<>>)
    /\ UNCHANGED <<repos, ws, sessions, procs, repoStates, turns, logFile, heads,
                   msgStores, children, normalizers, drains, notifications, nextId,
                   streams, logMigration, resetTask>>

\* a client asks for the normalized logs of an execution
CallStreamNormalizedLogs(id) ==
    /\ last.op # "stream_normalized_logs"
    /\ last' = Called("stream_normalized_logs", id,
                      IF id \in DOMAIN msgStores THEN "live"
                      ELSE IF stream_normalized_logs(Store, legacyLogs, id, <<>>).some
                      THEN "disk"
                      ELSE "None", <<>>)
    /\ UNCHANGED <<repos, ws, sessions, procs, repoStates, turns, logFile, heads,
                   msgStores, children, normalizers, drains, notifications, nextId,
                   streams, logMigration, resetTask>>

NextDrain ==
    \/ \E id \in ProcIds, i \in DOMAIN PushedMsgs : Push(id, PushedMsgs[i])
    \/ \E id \in ProcIds : DrainChildExits(id)
    \/ \E id \in ProcIds, ok \in BOOLEAN : DrainSubscribes(id, ok)
    \/ \E id \in ProcIds, ok \in BOOLEAN : DrainStep(id, ok)
    \/ \E id \in ProcIds : CallStreamRawLogs(id)
    \/ \E id \in ProcIds : CallStreamNormalizedLogs(id)

SpecDrain == InitDrain /\ [][NextDrain]_vars

\* the tasks spawned on the runtime are scheduled: a drain task that can do
\* its lookup or handle the next message of its stream eventually does
SpecDrainFair ==
    /\ SpecDrain
    /\ WF_vars(\E id \in ProcIds, ok \in BOOLEAN : DrainSubscribes(id, ok))
    /\ WF_vars(\E id \in ProcIds, ok \in BOOLEAN : DrainStep(id, ok))

(***************************************************************************)
(* SpecReset: reset_session_to_process called by a route, one await at a   *)
(* time, in a workspace with two sessions whose processes are running or   *)
(* completed, while the children of the Running processes commit.          *)
(* env.fail names the fallible call that returns Err ("None": none);       *)
(* env.stop tells whether the lookups and stop_execution calls of try_stop *)
(* succeed.                                                                *)
(***************************************************************************)
MaxResetProcs == 3
MaxResetCommits == 1

ResetFailures ==
    {"None", "find_by_id", "Session", "Workspace", "find_repos", "find_repo_states",
     "ensure_container_exists", "find_prev_after_head_commit", "drop_at_and_after"}

ResetEnvs ==
    {[fail |-> f, stop |-> TRUE] : f \in ResetFailures}
        \cup {[fail |-> "None", stop |-> FALSE]}

ResetKinds ==
    {[status |-> "Running", run_reason |-> "CodingAgent"],
     [status |-> "Running", run_reason |-> "DevServer"],
     [status |-> "Completed", run_reason |-> "CodingAgent"]}

InitReset ==
    \E n \in 1..MaxResetProcs, before \in {None, "c0"} :
       \E kinds \in [1..n -> ResetKinds], owner \in [1..n -> {1, 2}] :
          /\ owner[1] = 1
          /\ repos = TwoRepos
          /\ ws = [id |-> 1, name |-> "ws", branch |-> "vk/br",
                   container_ref |-> "/c", archived |-> FALSE]
          /\ heads = [name \in RepoNameSet |-> "c2"]
          /\ last = NoCall
          /\ Installed([EmptyStore EXCEPT
                !.sessions = TwoSessions,
                !.nextId = n + 1,
                !.children = {i \in 1..n : kinds[i].status = "Running"},
                !.procs = [i \in 1..n |->
                    [id |-> i, session_id |-> owner[i],
                     status |-> kinds[i].status, run_reason |-> kinds[i].run_reason,
                     executor_action |-> IF kinds[i].run_reason = "DevServer"
                                           THEN <<DevScript>> ELSE <<FollowUp>>,
                     exit_code |-> IF kinds[i].status = "Running" THEN None ELSE "0"]],
                !.repoStates =
                    {[execution_process_id |-> i, repo_id |-> 1,
                      before_head_commit |-> before,
                      after_head_commit |->
                          IF kinds[i].status = "Running" THEN None ELSE "c1",
                      merge_commit |-> None] : i \in 1..n}
                    \cup
                    {[execution_process_id |-> i, repo_id |-> 2,
                      before_head_commit |-> None,
                      after_head_commit |->
                          IF kinds[i].status = "Running" THEN None ELSE "c1",
                      merge_commit |-> None] : i \in 1..n}])

\* the checks and lookups before the first worktree is touched
reset_lookups_result(s, session_id, target_process_id, env) ==
    IF env.fail = "find_by_id" THEN "Err"
    ELSE IF reset_session_to_process_result(s, session_id, target_process_id) # "Ok"
    THEN reset_session_to_process_result(s, session_id, target_process_id)
    ELSE IF env.fail = "Session" THEN "Session not found"
    ELSE IF env.fail = "Workspace" THEN "Workspace not found"
    ELSE IF env.fail \in {"find_repos", "find_repo_states", "ensure_container_exists"}
    THEN "Err"
    ELSE "Ok"

\* what the call records when it returns
ResetReturned(task, ret) ==
    CalledWith("reset_session_to_process",
               [session_id |-> task.session_id,
                target_process_id |-> task.target_process_id,
                perform_git_reset |-> task.perform_git_reset,
                fail |-> task.env.fail, stop |-> task.env.stop,
                before |-> task.before,
                reconciled |-> task.reconciled, commits |-> task.commits],
               ret, <<>>)

\* the call, made once, up to ensure_container_exists and is_container_clean
ResetCall(session_id, target_process_id, perform_git_reset, env) ==
    LET task == [pc |-> "reconcile", session_id |-> session_id,
                 target_process_id |-> target_process_id,
                 perform_git_reset |-> perform_git_reset, env |-> env,
                 i |-> 1, before |-> procs,
                 reconciled |-> <<>>, commits |-> 0]
        ret == reset_lookups_result(Store, session_id, target_process_id, env)
    IN  /\ last.op = "init"
        /\ ~perform_git_reset => env = [fail |-> "None", stop |-> TRUE]
        /\ IF ret # "Ok"
             THEN /\ last' = ResetReturned(task, ret)
                  /\ UNCHANGED <<ws, resetTask>>
             ELSE /\ last' = Called("reset_step", target_process_id, None, <<>>)
                  /\ ws' = ensure_container_exists(Store).ws
                  /\ resetTask' = task
        /\ UNCHANGED <<repos, sessions, procs, repoStates, turns, logFile, heads,
                       msgStores, children, normalizers, drains, notifications,
                       nextId, streams, logMigration>>

\* one turn of the loop over the repos: the target commit is looked up and
\* the worktree reconciled to it
reset_needs_prev(s, target_process_id, repo_id) ==
    \A r \in s.repoStates :
        r.execution_process_id = target_process_id /\ r.repo_id = repo_id
            => r.before_head_commit = None

reconcile_worktree_to_commit(hs, name, oid, perform_git_reset) ==
    IF perform_git_reset /\ name \in DOMAIN hs THEN [hs EXCEPT ![name] = oid] ELSE hs

ResetReconcile ==
    LET task == resetTask
        repo == repos[task.i]
        oid == reset_target_oid(Store, task.session_id, task.target_process_id, repo.id)
    IN  /\ task.pc = "reconcile"
        /\ IF /\ task.env.fail = "find_prev_after_head_commit"
              /\ reset_needs_prev(Store, task.target_process_id, repo.id)
             THEN /\ last' = ResetReturned(task, "Err")
                  /\ resetTask' = NoReset
                  /\ UNCHANGED heads
             ELSE /\ last' = Called("reset_step", task.target_process_id, None, <<>>)
                  /\ heads' = IF oid = None THEN heads
                              ELSE reconcile_worktree_to_commit(
                                       heads, repo.name, oid, task.perform_git_reset)
                  /\ resetTask' =
                        [task EXCEPT
                            !.i = @ + 1,
                            !.pc = IF task.i = Len(repos) THEN "stop" ELSE @,
                            !.reconciled = IF oid = None THEN @
                                           ELSE Append(@, <<repo.name, oid>>)]
        /\ UNCHANGED <<repos, ws, sessions, procs, repoStates, turns, logFile,
                       msgStores, children, normalizers, drains, notifications,
                       nextId, streams, logMigration>>

\* try_stop(workspace, false); when its session lookup fails it returns
\* without stopping anything
ResetStop ==
    /\ resetTask.pc = "stop"
    /\ Install(IF resetTask.env.stop THEN try_stop(Store, FALSE) ELSE Store)
    /\ resetTask' = [resetTask EXCEPT !.pc = "drop"]
    /\ last' = Called("reset_step", resetTask.target_process_id, None, <<>>)
    /\ UNCHANGED <<repos, heads, streams, logMigration>>

\* drop_at_and_after, and the return
ResetDrop ==
    /\ resetTask.pc = "drop"
    /\ IF resetTask.env.fail = "drop_at_and_after"
         THEN /\ Install(Store)
              /\ last' = ResetReturned(resetTask, "Err")
         ELSE /\ Install(drop_at_and_after(Store, resetTask.session_id,
                                           resetTask.target_process_id))
              /\ last' = ResetReturned(resetTask, "Ok")
    /\ resetTask' = NoReset
    /\ UNCHANGED <<repos, heads, streams, logMigration>>

\* the child of a Running process commits in a worktree while the call is
\* in progress
ChildCommits(id, name) ==
    /\ resetTask.pc # "idle"
    /\ resetTask.commits < MaxResetCommits
    /\ id \in children
    /\ HasProc(procs, id) /\ ProcById(procs, id).status = "Running"
    /\ heads' = [heads EXCEPT ![name] = "c3"]
    /\ resetTask' = [resetTask EXCEPT !.commits = @ + 1]
    /\ last' = Called("child_commits", 0, None, <<>>)
    /\ UNCHANGED <<repos, ws, sessions, procs, repoStates, turns, logFile, msgStores,
                   children, normalizers, drains, notifications, nextId, streams,
                   logMigration>>

NextReset ==
    \/ \E sid \in SessionIds, id \in 1..MaxResetProcs, b \in BOOLEAN, env \in ResetEnvs :
          ResetCall(sid, id, b, env)
    \/ ResetReconcile
    \/ ResetStop
    \/ ResetDrop
    \/ \E id \in ProcIds, name \in DOMAIN heads : ChildCommits(id, name)

SpecReset == InitReset /\ [][NextReset]_vars

(***************************************************************************)
(* migrate_execution_logs_to_files.  The pairs streamed from the legacy    *)
(* table are migrated by tasks that run interleaved; a task is queued,     *)
(* writing its temporary file (k rows written), or done.                   *)
(***************************************************************************)
process_log_file_path(session_id, execution_id) == <<session_id, execution_id>>

\* ExecutionProcessLogs::stream_distinct_processes
stream_distinct_processes(legacy) ==
    {process_log_file_path(legacy[i].session_id, legacy[i].execution_id) :
        i \in 1..Len(legacy)}

\* ExecutionProcessLogs::stream_log_lines_by_execution_id: the logs of the
\* rows of an execution, in stored order
stream_log_lines_by_execution_id(legacy, execution_id) ==
    LET rows == SelectSeq(legacy, LAMBDA r : r.execution_id = execution_id)
    IN  [i \in 1..Len(rows) |-> rows[i].logs]

\* a row as the line written for it
written_line_as_stored(log) == log

written_line(log) ==
    IF log = <<>> \/ log[Len(log)] # "\n" THEN Append(log, "\n") ELSE log

\* has_any is false: the run returns at once
migrate_returns_early(legacy) == legacy = <<>>

path_exists_never(files, path) == FALSE

path_exists(files, path) == path \in DOMAIN files

without(files, path) == [k \in DOMAIN files \ {path} |-> files[k]]

\* the run starts: the pairs are streamed and their tasks queued
MigrateCall(extra) ==
    /\ migration.pc = "idle"
    /\ IF migrate_returns_early(legacyLogs)
         THEN /\ extra = {}
              /\ last' = CalledWith("migrate_execution_logs_to_files",
                                    [early |-> TRUE], "Ok", <<>>)
              /\ UNCHANGED migration
         ELSE /\ last' = Called("migrate_step", 0, None, <<>>)
              /\ migration' =
                    [pc |-> "running",
                     tasks |-> [p \in stream_distinct_processes(legacyLogs) \cup extra
                                   |-> [pc |-> "queued", k |-> 0]]]
    /\ UNCHANGED <<repos, ws, sessions, procs, repoStates, turns, logFile, heads,
                   msgStores, children, normalizers, drains, notifications, nextId,
                   streams, legacyLogs, tmpFiles, resetTask>>

MigrateUnchanged ==
    UNCHANGED <<repos, ws, sessions, procs, repoStates, turns, heads, msgStores,
                children, normalizers, drains, notifications, nextId, streams,
                legacyLogs, resetTask>>

\* a task starts: an existing destination is skipped, otherwise the
\* temporary file is created or truncated
MigrateOpens(path) ==
    /\ migration.pc = "running"
    /\ path \in DOMAIN migration.tasks
    /\ migration.tasks[path].pc = "queued"
    /\ IF path_exists(logFile, path)
         THEN /\ migration' = [migration EXCEPT !.tasks[path].pc = "done"]
              /\ UNCHANGED tmpFiles
         ELSE /\ migration' = [migration EXCEPT !.tasks[path].pc = "write"]
              /\ tmpFiles' = (path :> <<>>) @@ without(tmpFiles, path)
    /\ last' = Called("migrate_step", 0, None, <<>>)
    /\ UNCHANGED logFile
    /\ MigrateUnchanged

\* the next row of the pair is written to the temporary file
MigrateWrites(path) ==
    LET logs == stream_log_lines_by_execution_id(legacyLogs, path[2])
        k == migration.tasks[path].k
    IN  /\ migration.pc = "running"
        /\ path \in DOMAIN migration.tasks
        /\ migration.tasks[path].pc = "write"
        /\ k < Len(logs)
        /\ tmpFiles' = [tmpFiles EXCEPT ![path] = Append(@, written_line(logs[k + 1]))]
        /\ migration' = [migration EXCEPT !.tasks[path].k = k + 1]
        /\ last' = Called("migrate_step", 0, None, <<>>)
        /\ UNCHANGED logFile
        /\ MigrateUnchanged

\* the rows are exhausted: without rows the temporary file is removed (the
\* result of remove_file is ignored), otherwise it is synced and renamed
MigrateCloses(path, removed) ==
    LET logs == stream_log_lines_by_execution_id(legacyLogs, path[2])
    IN  /\ migration.pc = "running"
        /\ path \in DOMAIN migration.tasks
        /\ migration.tasks[path].pc = "write"
        /\ migration.tasks[path].k = Len(logs)
        /\ IF migration.tasks[path].k = 0
             THEN /\ tmpFiles' = IF removed THEN without(tmpFiles, path) ELSE tmpFiles
                  /\ UNCHANGED logFile
             ELSE /\ removed
                  /\ logFile' = (path :> tmpFiles[path]) @@ without(logFile, path)
                  /\ tmpFiles' = without(tmpFiles, path)
        /\ migration' = [migration EXCEPT !.tasks[path].pc = "done"]
        /\ last' = Called("migrate_step", 0,
                          IF removed THEN None ELSE "remove_file failed", <<>>)
        /\ MigrateUnchanged

\* try_collect returned Ok: the future of every pair returned Ok
some_pair_processed(tasks) == \E p \in DOMAIN tasks : tasks[p].pc = "done"

all_pairs_processed(tasks) == \A p \in DOMAIN tasks : tasks[p].pc = "done"

\* every task is done: the legacy rows are deleted and the run returns Ok
MigrateDeletesAll ==
    /\ migration.pc = "running"
    /\ all_pairs_processed(migration.tasks)
    /\ legacyLogs' = <<>>
    /\ migration' = [pc |-> "idle"]
    /\ last' = CalledWith("migrate_execution_logs_to_files",
                          [early |-> FALSE], "Ok", <<>>)
    /\ UNCHANGED <<repos, ws, sessions, procs, repoStates, turns, logFile, heads,
                   msgStores, children, normalizers, drains, notifications, nextId,
                   streams, tmpFiles, resetTask>>

\* the run ends early: a call returned Err, or the program was interrupted
MigrateAborts(ret) ==
    /\ migration.pc = "running"
    /\ migration' = [pc |-> "idle"]
    /\ last' = CalledWith("migrate_execution_logs_to_files",
                          [early |-> FALSE], ret, <<>>)
    /\ UNCHANGED <<repos, ws, sessions, procs, repoStates, turns, logFile, heads,
                   msgStores, children, normalizers, drains, notifications, nextId,
                   streams, legacyLogs, tmpFiles, resetTask>>

(***************************************************************************)
(* SpecMigrate: runs of migrate_execution_logs_to_files over a legacy      *)
(* table of at most MaxLegacyRows rows of two executions, with and without *)
(* a log file already at the destination of the first.                     *)
(***************************************************************************)
MaxLegacyRows == 3

LegacyLogRows ==
    [session_id : {1}, execution_id : {1, 2},
     logs : {json_line(Stdout("a")), <<"{", "Stderr", ":", "b", "}">>}]

ExistingFile == <<json_line(Stdout("x"))>>

MigratePaths == {process_log_file_path(1, e) : e \in 1..3}

InitMigrate ==
    \E n \in 1..MaxLegacyRows :
       /\ legacyLogs \in [1..n -> LegacyLogRows]
       /\ logFile \in {<<>>, (process_log_file_path(1, 1) :> ExistingFile)}
       /\ tmpFiles = <<>>
       /\ migration = [pc |-> "idle"]
       /\ resetTask = NoReset
       /\ repos = <<>>
       /\ ws = [id |-> 1, name |-> "ws", branch |-> "vk/br", container_ref |-> None,
                archived |-> FALSE]
       /\ heads = <<>>
       /\ sessions = TwoSessions
       /\ procs = <<>>
       /\ repoStates = {}
       /\ turns = {}
       /\ msgStores = <<>>
       /\ children = {}
       /\ normalizers = {}
       /\ drains = {}
       /\ notifications = <<>>
       /\ nextId = 1
       /\ streams = <<>>
       /\ last = NoCall

NextMigrate ==
    \/ \E extra \in SUBSET {process_log_file_path(1, 3)} : MigrateCall(extra)
    \/ \E path \in MigratePaths : MigrateOpens(path)
    \/ \E path \in MigratePaths : MigrateWrites(path)
    \/ \E path \in MigratePaths, removed \in BOOLEAN : MigrateCloses(path, removed)
    \/ MigrateDeletesAll
    \/ \E ret \in {"Err", "interrupted"} : MigrateAborts(ret)

SpecMigrate == InitMigrate /\ [][NextMigrate]_vars

(***************************************************************************)
(* SpecChain: chains driven to their end.  start_workspace starts the      *)
(* sequential chain of a workspace of one or two repos, each with or       *)
(* without a setup, cleanup and archive script; the exit monitor of each   *)
(* process that ends finalizes the context or starts the next action;      *)
(* archive_workspace starts the archive chain.                             *)
(***************************************************************************)
MaxChainProcs == 5

ChainRepoLists ==
    UNION {{rs \in [1..n -> {Repo(i, setup, FALSE, cleanup, archive) :
                                 i \in 1..MaxRepos, setup \in BOOLEAN,
                                 cleanup \in BOOLEAN, archive \in BOOLEAN}] :
               \A i \in 1..n : rs[i].id = i} :
           n \in 1..MaxRepos}

ArchiveGood ==
    [set_archived |-> TRUE, find_dev_servers |-> TRUE, stop |-> TRUE,
     pre |-> "None", o |-> AllGood]

InitChain ==
    /\ repos \in ChainRepoLists
    /\ ws = [id |-> 1, name |-> "ws", branch |-> "vk/br", container_ref |-> None,
             archived |-> FALSE]
    /\ heads = [n \in RepoNameSet |-> "c0"]
    /\ InitRows
    /\ sessions = <<>>

ChainStartWorkspace ==
    /\ last.op = "init"
    /\ LET s == start_workspace(Store, "CLAUDE_CODE", "hi", "None",
                                [i \in 1..StartCallCount |-> AllGood])
       IN  /\ Install(s)
           /\ last' = Called("start_workspace", s.calls[Len(s.calls)].id,
                             start_workspace_result("None", s.calls), s.calls)
    /\ UNCHANGED <<repos, heads, streams, logMigration, resetTask>>

\* the child of a Running process exits and its exit monitor runs
ChainProcessExits(id, status, exit_code) ==
    /\ id \in children
    /\ ProcById(procs, id).status = "Running"
    /\ nextId <= MaxChainProcs
    /\ LET s == exit_monitor(Store, id, status, exit_code, AllGood)
       IN  /\ Install(s)
           /\ last' = Called("exit_monitor", id, Propagated(s.calls), s.calls)
    /\ UNCHANGED <<repos, heads, streams, logMigration, resetTask>>

\* a route archives the workspace
ChainArchiveWorkspace ==
    /\ sessions # <<>>
    /\ ~ws.archived
    /\ nextId <= MaxChainProcs
    /\ LET s == archive_workspace(Store, ArchiveGood)
       IN  /\ Install(s)
           /\ last' = CalledWith("archive_workspace", ArchiveGood,
                                 archive_workspace_result(ArchiveGood), s.calls)
    /\ UNCHANGED <<repos, heads, streams, logMigration, resetTask>>

NextChain ==
    \/ ChainStartWorkspace
    \/ \E id \in ProcIds : ChainProcessExits(id, "Completed", "0")
    \/ \E id \in ProcIds : ChainProcessExits(id, "Failed", "1")
    \/ ChainArchiveWorkspace

SpecChain == InitChain /\ [][NextChain]_vars

(***************************************************************************)
(* SpecBuild: the builders of script chains applied to the repos of a      *)
(* workspace: at most MaxRepos repos in any order, each with or without a  *)
(* setup, cleanup and archive script.                                      *)
(***************************************************************************)
BuildRepoLists ==
    UNION {{rs \in [1..n -> {Repo(i, setup, FALSE, cleanup, archive) :
                                 i \in 1..MaxRepos, setup \in BOOLEAN,
                                 cleanup \in BOOLEAN, archive \in BOOLEAN}] :
               \A i, j \in 1..n : i # j => rs[i].id # rs[j].id} :
           n \in 0..MaxRepos}

InitBuild ==
    /\ repos \in BuildRepoLists
    /\ ws = [id |-> 1, name |-> "ws", branch |-> "vk/br", container_ref |-> None,
             archived |-> FALSE]
    /\ heads = [n \in RepoNameSet |-> "c0"]
    /\ InitRows
    /\ sessions = <<>>

BuildUnchanged ==
    UNCHANGED <<repos, ws, sessions, procs, repoStates, turns, logFile, heads,
                msgStores, children, normalizers, drains, notifications, nextId,
                streams, logMigration, resetTask>>

CallSetupActionsForRepos ==
    /\ last' = Called("setup_actions_for_repos", 0, setup_actions_for_repos(repos), <<>>)
    /\ BuildUnchanged

CallCleanupActionsForRepos ==
    /\ last' = Called("cleanup_actions_for_repos", 0, cleanup_actions_for_repos(repos),
                      <<>>)
    /\ BuildUnchanged

CallArchiveActionsForRepos ==
    /\ last' = Called("archive_actions_for_repos", 0, archive_actions_for_repos(repos),
                      <<>>)
    /\ BuildUnchanged

NextBuild ==
    \/ CallSetupActionsForRepos
    \/ CallCleanupActionsForRepos
    \/ CallArchiveActionsForRepos

SpecBuild == InitBuild /\ [][NextBuild]_vars

(***************************************************************************)
(* SpecFrame: the operations of the service on a workspace whose caller    *)
(* has stamped merge_commit on some repo-state rows.  Process 1 completed, *)
(* process 2 is Running with the cleanup chain as next action; the startup *)
(* calls, a reset, the exits of the children and archive_workspace act on  *)
(* these rows.                                                             *)
(***************************************************************************)
StampedRows == SUBSET {<<1, 1>>, <<2, 1>>}

InitFrame ==
    \E stamped \in StampedRows, before \in {None, "c0"}, after \in {None, "c1"} :
       /\ repos = TwoRepos
       /\ ws = [id |-> 1, name |-> "ws", branch |-> "vk/br", container_ref |-> "/c",
                archived |-> FALSE]
       /\ heads = [name \in RepoNameSet |-> "c2"]
       /\ last = NoCall
       /\ Installed([EmptyStore EXCEPT
             !.sessions = TwoSessions,
             !.nextId = 3,
             !.children = {2},
             !.procs =
                 <<[id |-> 1, session_id |-> 1, status |-> "Completed",
                    run_reason |-> "CodingAgent", executor_action |-> <<FollowUp>>,
                    exit_code |-> "0"],
                   [id |-> 2, session_id |-> 1, status |-> "Running",
                    run_reason |-> "CodingAgent",
                    executor_action |->
                        NewAction(FollowUp, cleanup_actions_for_repos(TwoRepos)),
                    exit_code |-> None]>>,
             !.repoStates =
                 {[execution_process_id |-> i, repo_id |-> k,
                   before_head_commit |-> IF i = 1 THEN before ELSE "c1",
                   after_head_commit |-> IF i = 1 THEN after ELSE None,
                   merge_commit |-> IF <<i, k>> \in stamped THEN "m1" ELSE None] :
                     i \in 1..2, k \in 1..2}])

ResetGood == [fail |-> "None", stop |-> TRUE]

NextFrame ==
    \/ NextStartup
    \/ \E id \in 1..2, b \in BOOLEAN : ResetCall(1, id, b, ResetGood)
    \/ ResetReconcile
    \/ ResetStop
    \/ ResetDrop
    \/ NextChain

SpecFrame == InitFrame /\ [][NextFrame]_vars

(***************************************************************************)
(* Properties of should_finalize, try_start_next_action and finalize_task  *)
(* (SpecCtx).                                                              *)
(***************************************************************************)
CtxRow == ProcById(procs, last.id)

HasNext(p) == next_action(p.executor_action) # <<>>

\* C1: should_finalize is false for every DevServer process and for a
\* SetupScript process with no next action, whatever their status;
\* otherwise it is true when the status is Failed or Killed, and in the
\* remaining cases true exactly when the action has no next action.
C1_ShouldFinalizeTable ==
    last.op = "should_finalize" =>
        LET p == CtxRow
        IN  /\ p.run_reason = "DevServer" => last.ret = FALSE
            /\ (p.run_reason = "SetupScript" /\ ~HasNext(p)) => last.ret = FALSE
            /\ (/\ p.run_reason # "DevServer"
                /\ ~(p.run_reason = "SetupScript" /\ ~HasNext(p))
                /\ p.status \in {"Failed", "Killed"}) => last.ret = TRUE
            /\ (/\ p.run_reason # "DevServer"
                /\ ~(p.run_reason = "SetupScript" /\ ~HasNext(p))
                /\ p.status \notin {"Failed", "Killed"}) => last.ret = ~HasNext(p)

\* a SetupScript process with no next action that failed: not finalized
C1_Witness ==
    /\ last.op = "should_finalize"
    /\ CtxRow.run_reason = "SetupScript"
    /\ ~HasNext(CtxRow)
    /\ CtxRow.status = "Failed"
    /\ last.ret = FALSE

C2_RunReason(current, next) ==
    IF next.typ \in CodingAgentTypes THEN "CodingAgent"
    ELSE IF current.typ \in CodingAgentTypes THEN "CleanupScript"
    ELSE "SetupScript"

\* C2: try_start_next_action on a process whose action has no next action
\* starts nothing and returns Ok; otherwise it calls start_execution exactly
\* once, in the session of the process, with the next action, and with the
\* run reason SetupScript when both actions are scripts, CleanupScript when
\* an agent-type action is followed by a script, and CodingAgent when the
\* next action is of an agent type; it returns what that call returns.
C2_TryStartNextAction ==
    [][last'.op = "try_start_next_action" =>
        LET p == ProcById(procs, last'.id)
            a == p.executor_action
        IN  IF Len(a) = 1
            THEN /\ last'.calls = <<>>
                 /\ last'.ret = "Ok"
                 /\ UNCHANGED <<ws, sessions, procs, repoStates, turns, logFile,
                                msgStores, children, normalizers, drains,
                                notifications, nextId>>
            ELSE /\ Len(last'.calls) = 1
                 /\ last'.calls[1].session_id = p.session_id
                 /\ last'.calls[1].executor_action = Tail(a)
                 /\ last'.calls[1].run_reason = C2_RunReason(a[1], a[2])
                 /\ last'.ret = last'.calls[1].result
                 /\ Len(procs') <= Len(procs) + 1
                 /\ last'.ret = "Ok" =>
                        /\ Len(procs') = Len(procs) + 1
                        /\ procs'[Len(procs')].session_id = p.session_id
                        /\ procs'[Len(procs')].executor_action = Tail(a)
                        /\ procs'[Len(procs')].run_reason = last'.calls[1].run_reason
    ]_vars

\* the cleanup script after a follow-up was started as a CleanupScript
C2_Witness ==
    /\ last.op = "try_start_next_action"
    /\ last.ret = "Ok"
    /\ CtxRow.executor_action[1].typ = "CodingAgentFollowUpRequest"
    /\ Len(procs) = 2
    /\ procs[2].run_reason = "CleanupScript"
    /\ procs[2].executor_action = <<CleanupA>>

\* C3: finalize_task sends exactly one notification when the process is
\* Completed or Failed, titled "Workspace Complete: " followed by the
\* workspace name, or by the branch when the workspace has no name, with a
\* body that tells a success from a failure; it sends none when the process
\* is Killed or Running.
C3_FinalizeNotifies ==
    [][last'.op = "finalize_task" =>
        LET p == ProcById(procs, last'.id)
            n == notifications'[Len(notifications')]
        IN  IF p.status \in {"Completed", "Failed"}
            THEN /\ Len(notifications') = Len(notifications) + 1
                 /\ SubSeq(notifications', 1, Len(notifications)) = notifications
                 /\ n.title = "Workspace Complete: "
                                  \o (IF ws.name # None THEN ws.name ELSE ws.branch)
                 /\ n.message[1] = (IF p.status = "Completed"
                                    THEN "completed successfully"
                                    ELSE "execution failed")
            ELSE notifications' = notifications
    ]_vars

\* a failed process of a workspace without a name was notified by branch
C3_Witness ==
    /\ last.op = "finalize_task"
    /\ CtxRow.status = "Failed"
    /\ ws.name = None
    /\ Len(notifications) = 1
    /\ notifications[1].title = "Workspace Complete: vk/br"

(***************************************************************************)
(* Properties of start_workspace (SpecWorkspace).                          *)
(***************************************************************************)
WithSetup == SelectSeq(repos, LAMBDA r : r.setup_script # None)

WithCleanup == SelectSeq(repos, LAMBDA r : r.cleanup_script # None)

SetupRequests ==
    [i \in 1..Len(WithSetup) |->
        ScriptRequest(WithSetup[i].setup_script, "SetupScript", WithSetup[i].name)]

CleanupRequests ==
    [i \in 1..Len(WithCleanup) |->
        ScriptRequest(WithCleanup[i].cleanup_script, "CleanupScript", WithCleanup[i].name)]

AgentRequest == CodingAgentRequest("CodingAgentInitialRequest", "hi")

SequentialMode == \E i \in 1..Len(WithSetup) : ~WithSetup[i].parallel_setup_script

\* the row a start_execution call inserted is the process it was asked for
CallRow(c, ps) ==
    /\ HasProc(ps, c.id)
    /\ ProcById(ps, c.id).session_id = c.session_id
    /\ ProcById(ps, c.id).executor_action = c.executor_action
    /\ ProcById(ps, c.id).run_reason = c.run_reason

\* C4: when some repo with a setup script is not flagged parallel,
\* start_workspace (its container, repo and session steps succeeding) makes
\* exactly one start_execution call, with run reason SetupScript, in the
\* session it has just created, for the chain of the setup scripts of all
\* repos that have one, in workspace order, then the coding-agent request
\* with the prompt, then the cleanup scripts of all repos that have one, in
\* workspace order; when that call succeeds exactly one process row is new.
C4_SequentialStart ==
    [][(last'.op = "start_workspace" /\ last'.ret # "Err" /\ SequentialMode) =>
        /\ Len(sessions') = Len(sessions) + 1
        /\ Len(last'.calls) = 1
        /\ last'.calls[1].run_reason = "SetupScript"
        /\ last'.calls[1].session_id = sessions'[Len(sessions')].id
        /\ last'.calls[1].executor_action
               = SetupRequests \o <<AgentRequest>> \o CleanupRequests
        /\ last'.ret = last'.calls[1].result
        /\ Len(procs') <= Len(procs) + 1
        /\ last'.ret = "Ok" =>
               /\ Len(procs') = Len(procs) + 1
               /\ CallRow(last'.calls[1], procs')
               /\ ProcById(procs', last'.id).status = "Running"
    ]_vars

\* two repos, the first flagged parallel and with a cleanup script, the
\* second sequential: one process for setup, setup, agent, cleanup
C4_Witness ==
    /\ last.op = "start_workspace"
    /\ last.ret = "Ok"
    /\ Len(repos) = 2
    /\ repos[1].parallel_setup_script
    /\ repos[2].setup_script # None /\ ~repos[2].parallel_setup_script
    /\ repos[1].cleanup_script # None
    /\ Len(procs) = 1
    /\ Len(procs[1].executor_action) >= 4
    /\ procs[1].run_reason = "SetupScript"

\* C5: when every repo with a setup script is flagged parallel (also when
\* no repo has one), start_workspace (its container, repo and session steps
\* succeeding) makes one start_execution call per such repo, with run
\* reason SetupScript and the single ScriptRequest of the repo with no next
\* action, and then, whatever those calls returned, one call with run
\* reason CodingAgent for the coding-agent request followed by the cleanup
\* chain, all in the session it has just created; it returns what the last
\* call returns, the coding-agent process when it succeeds.
C5_ParallelStart ==
    [][(last'.op = "start_workspace" /\ last'.ret # "Err" /\ ~SequentialMode) =>
        LET n == Len(WithSetup)
            calls == last'.calls
        IN  /\ Len(sessions') = Len(sessions) + 1
            /\ Len(calls) = n + 1
            /\ \A i \in 1..(n + 1) : calls[i].session_id = sessions'[Len(sessions')].id
            /\ \A i \in 1..n :
                   /\ calls[i].run_reason = "SetupScript"
                   /\ calls[i].executor_action = <<SetupRequests[i]>>
                   /\ calls[i].result = "Ok" =>
                          /\ CallRow(calls[i], procs')
                          /\ ProcById(procs', calls[i].id).status = "Running"
            /\ calls[n + 1].run_reason = "CodingAgent"
            /\ calls[n + 1].executor_action = <<AgentRequest>> \o CleanupRequests
            /\ last'.ret = calls[n + 1].result
            /\ last'.ret = "Ok" =>
                   /\ last'.id = calls[n + 1].id
                   /\ CallRow(calls[n + 1], procs')
                   /\ ProcById(procs', last'.id).status = "Running"
            /\ Len(procs') <= Len(procs) + n + 1
    ]_vars

\* both setup processes failed to start and the coding agent was started
C5_Witness ==
    /\ last.op = "start_workspace"
    /\ last.ret = "Ok"
    /\ Len(last.calls) = 3
    /\ last.calls[1].result # "Ok"
    /\ last.calls[2].result # "Ok"
    /\ HasProc(procs, last.id)
    /\ ProcById(procs, last.id).run_reason = "CodingAgent"
    /\ ProcById(procs, last.id).status = "Running"

(***************************************************************************)
(* Properties of the workspace lifecycle (SpecLifecycle).                  *)
(***************************************************************************)
\* a process running one setup script outside any chain, as parallel mode
\* starts them
SetupLeaf(p) == p.run_reason = "SetupScript" /\ next_action(p.executor_action) = <<>>

LastCall == last.calls[1]

LastRow == ProcById(procs, last.id)

LinesOfKind(lines, kind) == SelectSeq(lines, LAMBDA l : l[2] = kind)

\* C7: a start_execution call that passes its checks (repos present,
\* container_ref present) and whose insert transaction commits adds exactly
\* one ExecutionProcess row, with an id no row had, the session, action and
\* run_reason it was given and status Running (Failed once a failed spawn has
\* been recorded), and exactly one repo-state row per repo of the workspace,
\* with before_head_commit the HEAD of that repo's worktree at the call (None
\* when it cannot be read) and after_head_commit and merge_commit absent.
C7_InsertsOneRow ==
    [][(/\ last'.op = "start_execution"
        /\ repos # <<>>
        /\ ws.container_ref # None
        /\ last'.calls[1].env.fail \notin {"find_repos", "create"})
       => LET c == last'.calls[1]
              row == procs'[Len(procs')]
              added == repoStates' \ repoStates
          IN  /\ c.id # 0
              /\ ~HasProc(procs, c.id)
              /\ Len(procs') = Len(procs) + 1
              /\ SubSeq(procs', 1, Len(procs)) = procs
              /\ row.id = c.id
              /\ row.session_id = c.session_id
              /\ row.executor_action = c.executor_action
              /\ row.run_reason = c.run_reason
              /\ \/ row.status = "Running"
                 \/ /\ c.result \in {"ExecutableNotFound", "SpawnFailed"}
                    /\ row.status = "Failed"
              /\ c.result = "Ok" => row.status = "Running"
              /\ repoStates \subseteq repoStates'
              /\ Cardinality(added) = Len(repos)
              /\ added = {[execution_process_id |-> c.id, repo_id |-> repos[i].id,
                           before_head_commit |-> heads[repos[i].name],
                           after_head_commit |-> None, merge_commit |-> None]
                             : i \in 1..Len(repos)}]_vars

\* a second execution started after the HEAD of a worktree moved: its
\* snapshot differs from the first execution's
C7_Witness ==
    /\ last.op = "start_execution"
    /\ last.ret = "Ok"
    /\ last.id = 2
    /\ \E r1 \in repoStates, r2 \in repoStates :
          /\ r1.execution_process_id = 1
          /\ r2.execution_process_id = 2
          /\ r1.repo_id = r2.repo_id
          /\ r1.before_head_commit = "c0"
          /\ r2.before_head_commit = "c1"
    /\ \E r \in repoStates : r.execution_process_id = 2 /\ r.before_head_commit = "c0"

\* C8: start_execution on a workspace with no repos, or with no
\* container_ref, returns an error and writes nothing: no process row, no
\* repo-state row, no CodingAgentTurn, no change of the workspace row (its
\* archived flag), no child, no MsgStore, no log line, no task.
C8_FailedChecksChangeNothing ==
    [][(/\ last'.op = "start_execution"
        /\ (repos = <<>> \/ ws.container_ref = None))
       => /\ last'.ret \in {"NoRepositories", "ContainerRefNotFound", "Sqlx"}
          /\ last'.calls[1].env.fail # "find_repos"
                => last'.ret = IF repos = <<>> THEN "NoRepositories"
                               ELSE "ContainerRefNotFound"
          /\ last'.id = 0
          /\ UNCHANGED <<ws, procs, repoStates, turns, children, msgStores, logFile,
                         normalizers, drains, notifications, nextId>>]_vars

\* a coding-agent start refused on an archived workspace that has no repos
C8_Witness ==
    /\ last.op = "start_execution"
    /\ last.ret = "NoRepositories"
    /\ LastCall.run_reason = "CodingAgent"
    /\ ws.container_ref # None
    /\ ws.archived
    /\ procs = <<>>

\* C9: when start_execution_inner fails, start_execution returns that error,
\* starts neither the normalizer nor the drain task, and leaves the new row
\* Failed with no exit code and the log file of the execution holding exactly
\* one Stderr line that describes the error, followed by exactly one
\* JsonPatch line adding an ErrorMessage{SetupRequired} entry at index 2
\* exactly when the error is ExecutableNotFound; each of these three writes
\* is made once, and is there when the write itself did not fail.
C9_InnerFailure ==
    (last.op = "start_execution" /\ LastCall.env.fail \in {"ExecutableNotFound", "SpawnFailed"}
     /\ last.id # 0)
    => LET c == LastCall
           lines == FileLines(logFile, <<c.session_id, c.id>>)
           stderr == <<"{", "Stderr", ":", "Failed to start execution: " \o c.env.fail,
                       "}", "\n">>
           patch == <<"{", "JsonPatch", ":",
                      [op |-> "add", index |-> 2,
                       value |-> [entry_type |-> "ErrorMessage",
                                  error_type |-> "SetupRequired",
                                  content |-> "The required executable is not installed."]],
                      "}", "\n">>
       IN  /\ last.ret = c.env.fail
           /\ c.id \notin normalizers
           /\ c.id \notin drains
           /\ c.id \notin children
           /\ c.env.update => LastRow.status = "Failed"
           /\ LastRow.exit_code = None
           /\ lines = (IF c.env.append THEN <<stderr>> ELSE <<>>)
                      \o (IF c.env.fail = "ExecutableNotFound" /\ c.env.append_patch
                          THEN <<patch>> ELSE <<>>)

\* the executable is missing and every write of the failure path works
C9_Witness ==
    /\ last.op = "start_execution"
    /\ last.ret = "ExecutableNotFound"
    /\ LastCall.env.update /\ LastCall.env.append /\ LastCall.env.append_patch
    /\ LastRow.status = "Failed"
    /\ Len(FileLines(logFile, <<LastCall.session_id, last.id>>)) = 2
    /\ IsCodingAgentTyp(typ(LastCall.executor_action))

\* C10: whenever start_execution returns an error after it inserted a
\* process row, that row has status Failed when the call returns, whichever
\* step failed (clearing the archived flag, inserting the CodingAgentTurn,
\* spawning the child).
C10_FailedStartNeverRunning ==
    (last.op = "start_execution" /\ last.ret # "Ok" /\ last.id # 0)
    => LastRow.status = "Failed"

\* C11: a start_execution call that inserted its process row and whose
\* write of the archived flag did not itself fail leaves the flag false
\* when its run reason is not ArchiveScript, also when the child then fails
\* to spawn; a call with run reason ArchiveScript leaves the flag as it was;
\* no call changes anything else of the workspace row.
C11_ArchivedFlag ==
    [][last'.op = "start_execution" =>
        LET c == last'.calls[1]
        IN  /\ (c.id # 0 /\ c.run_reason # "ArchiveScript" /\ c.env.fail # "set_archived")
                   => ~ws'.archived
            /\ (c.id = 0 \/ c.run_reason = "ArchiveScript" \/ c.env.fail = "set_archived")
                   => ws'.archived = ws.archived
            /\ [ws' EXCEPT !.archived = ws.archived] = ws
    ]_vars

\* on the archived workspace an archive script was started, the flag still
\* set, and then a coding agent whose spawn failed: the flag is cleared
C11_Witness ==
    /\ last.op = "start_execution"
    /\ last.ret = "SpawnFailed"
    /\ LastCall.run_reason = "CodingAgent"
    /\ Len(procs) = 2
    /\ procs[1].run_reason = "ArchiveScript"
    /\ ~ws.archived

\* the CodingAgentTurn rows of an execution process
TurnsOf(id) == {t \in turns : t.execution_process_id = id}

\* C12: every execution process whose start_execution call returned Ok has
\* exactly one CodingAgentTurn row, carrying the prompt of its request, when
\* its action is a CodingAgentInitialRequest, a CodingAgentFollowUpRequest
\* or a ReviewRequest, and has none when its action is a ScriptRequest.
C12_OneTurnPerAgentProcess ==
    \A i \in 1..Len(procs) :
        procs[i].id \in drains =>
            IF procs[i].executor_action[1].typ \in CodingAgentTypes
            THEN /\ Cardinality(TurnsOf(procs[i].id)) = 1
                 /\ \A t \in TurnsOf(procs[i].id) :
                        t.prompt = procs[i].executor_action[1].prompt
            ELSE TurnsOf(procs[i].id) = {}

\* a review was started and then its cleanup script: one turn, the review's
C12_Witness ==
    /\ Len(procs) = 2
    /\ procs[1].id \in drains /\ procs[2].id \in drains
    /\ procs[1].executor_action[1].typ = "ReviewRequest"
    /\ procs[2].executor_action[1].typ = "ScriptRequest"
    /\ \E t \in turns : t.execution_process_id = procs[1].id /\ t.prompt = "look"
    /\ Cardinality(turns) = 1


(***************************************************************************)
(* Properties of try_run_archive_script and archive_workspace              *)
(***************************************************************************)
ArchiveGateClosed ==
    \/ last'.env.pre = "has_running"
    \/ \E i \in DOMAIN procs :
            procs[i].status = "Running" /\ procs[i].run_reason # "DevServer"
    \/ last'.env.pre = "ensure_container"
    \/ (last'.env.pre # "find_repos" /\ \A i \in DOMAIN repos : repos[i].archive_script = None)

\* C13: try_run_archive_script returns Ok, starts no process and creates no
\* session when a Running non-dev-server process exists or that check fails,
\* when the container cannot be materialized, or when no repository has an
\* archive script (the workspace and repository lookups themselves succeeding)
C13_ArchiveGates ==
    [][(last'.op = "try_run_archive_script" /\ last'.env.pre # "find_by_id"
            /\ ArchiveGateClosed)
          => /\ last'.ret = "Ok"
             /\ last'.calls = <<>>
             /\ procs' = procs
             /\ children' = children
             /\ sessions' = sessions]_vars

C13_Witness ==
    /\ last.op = "try_run_archive_script"
    /\ last.env.pre = "None"
    /\ last.ret = "Ok"
    /\ last.calls = <<>>
    /\ sessions = <<>>
    /\ \A i \in DOMAIN repos : repos[i].archive_script = None

ArchiveGatesPass ==
    /\ last'.env.pre = "None"
    /\ \E i \in DOMAIN repos : repos[i].archive_script # None
    /\ ~\E i \in DOMAIN procs :
            procs[i].status = "Running" /\ procs[i].run_reason # "DevServer"

RepoStateOf(states, id, repo_id) ==
    CHOOSE r \in states : r.execution_process_id = id /\ r.repo_id = repo_id

\* C15: after cleanup_orphan_executions every process that was Running, of
\* any run_reason, is Failed without exit code, the other processes are as
\* they were, and for a swept process whose workspace still has its container
\* every repo whose HEAD can be read has after_head_commit = that HEAD (the
\* query and the updates themselves succeeding); no other column changes
C15_OrphanSweep ==
    [][(/\ last'.op = "cleanup_orphan_executions"
        /\ last'.env.find_running /\ last'.env.update_completion = 0
        /\ last'.env.load_context /\ last'.env.update_after)
          => /\ last'.ret = "Ok"
             /\ Len(procs') = Len(procs)
             /\ \A i \in DOMAIN procs :
                   IF procs[i].status = "Running"
                     THEN procs'[i] = [procs[i] EXCEPT !.status = "Failed",
                                                       !.exit_code = None]
                     ELSE procs'[i] = procs[i]
             /\ Cardinality(repoStates') = Cardinality(repoStates)
             /\ \A r \in repoStates :
                   LET p == procs[CHOOSE i \in DOMAIN procs :
                                     procs[i].id = r.execution_process_id]
                       name == repos[CHOOSE j \in DOMAIN repos :
                                        repos[j].id = r.repo_id].name
                   IN  IF /\ p.status = "Running"
                          /\ ws.container_ref # None
                          /\ name \in DOMAIN heads /\ heads[name] # None
                         THEN [r EXCEPT !.after_head_commit = heads[name]] \in repoStates'
                         ELSE r \in repoStates']_vars

C15_Witness ==
    /\ last.op = "cleanup_orphan_executions"
    /\ last.ret = "Ok"
    /\ \E i, j \in DOMAIN procs :
          /\ procs[i].status = "Failed" /\ procs[i].run_reason = "DevServer"
          /\ procs[i].exit_code = None
          /\ procs[j].status = "Completed"
          /\ RepoStateOf(repoStates, procs[i].id, 1).after_head_commit = "c1"
          /\ RepoStateOf(repoStates, procs[i].id, 2).after_head_commit = "c0"
          /\ heads["b"] = None

\* the rows a startup call still had to handle when the update of one row
\* failed are handled, and the call returns Ok
StartupContinues(ops) ==
    (last'.op \in ops /\ (last'.op = "cleanup_orphan_executions" => last'.env.find_running)
        /\ (last'.op # "cleanup_orphan_executions" => last'.env.list))
      => /\ last'.ret = "Ok"
         /\ last'.op = "cleanup_orphan_executions" =>
               \A i \in DOMAIN procs :
                  (procs[i].status = "Running"
                      /\ procs[i].id # last'.env.update_completion)
                    => procs'[i].status = "Failed"
         /\ last'.op = "backfill_before_head_commits" =>
               \A r \in repoStates :
                  (/\ r.before_head_commit = None /\ r.after_head_commit # None
                   /\ last'.env.branch_oid[r.repo_id] # None
                   /\ r.execution_process_id # last'.env.update)
                    => RepoStateOf(repoStates', r.execution_process_id,
                                   r.repo_id).before_head_commit # None
         /\ last'.op = "backfill_repo_names" =>
               \A i \in DOMAIN repos :
                  (repos[i].name = NeedsNameFix /\ repos[i].id # last'.env.update)
                    => repos'[i].name # NeedsNameFix

\* C16: cleanup_orphan_executions, backfill_before_head_commits and
\* backfill_repo_names each, when the update of one row fails, go on with the
\* remaining rows and return Ok
C16_StartupContinues ==
    [][StartupContinues({"cleanup_orphan_executions", "backfill_before_head_commits",
                         "backfill_repo_names"})]_vars

\* the same for the two calls that only log a failed update
C16_SweepAndBackfillContinue ==
    [][StartupContinues({"cleanup_orphan_executions",
                         "backfill_before_head_commits"})]_vars

\* C17: a second backfill_before_head_commits right after the first (same
\* git state, same outcome of the calls) leaves the repo-state rows as the
\* first left them, and a run never changes a before_head_commit that was set
C17_BackfillIdempotent ==
    [][(last'.op = "backfill_before_head_commits")
          => /\ backfill_before_head_commits(Store', last'.env).repoStates = repoStates'
             /\ \A r \in repoStates :
                   r.before_head_commit # None => r \in repoStates'
             /\ Cardinality(repoStates') = Cardinality(repoStates)]_vars

C17_Witness ==
    /\ last.op = "backfill_before_head_commits"
    /\ last.ret = "Ok"
    /\ \E r \in repoStates : r.repo_id = 1 /\ r.before_head_commit = "c0"
    /\ \E r \in repoStates : r.repo_id = 1 /\ r.before_head_commit \in {"b0", "c1"}

\* the after_head_commit of the process before id in its session, for a repo
PrevAfter(id, repo_id) ==
    LET me == CHOOSE i \in DOMAIN procs : procs[i].id = id
        before == {i \in DOMAIN procs :
                      procs[i].session_id = procs[me].session_id /\ procs[i].id < id}
        prev == CHOOSE i \in before : \A k \in before : procs[k].id <= procs[i].id
    IN  IF before = {} THEN None
        ELSE RepoStateOf(repoStates, procs[prev].id, repo_id).after_head_commit

\* C18: backfill_before_head_commits gives each repo-state row without
\* before_head_commit and with after_head_commit the after_head_commit of the
\* previous process of the same session and repo, or without one the oid of
\* the target branch in that repo, or leaves it absent when that oid cannot
\* be resolved; the other rows and columns stay (the query and the updates
\* themselves succeeding)
C18_BackfillValue ==
    [][(/\ last'.op = "backfill_before_head_commits"
        /\ last'.env.list /\ last'.env.update = 0)
          => /\ Cardinality(repoStates') = Cardinality(repoStates)
             /\ \A r \in repoStates :
                   IF r.before_head_commit = None /\ r.after_head_commit # None
                     THEN [r EXCEPT !.before_head_commit =
                              IF PrevAfter(r.execution_process_id, r.repo_id) # None
                                THEN PrevAfter(r.execution_process_id, r.repo_id)
                                ELSE last'.env.branch_oid[r.repo_id]] \in repoStates'
                     ELSE r \in repoStates']_vars

C18_Witness ==
    /\ last.op = "backfill_before_head_commits"
    /\ last.ret = "Ok"
    /\ RepoStateOf(repoStates, 1, 1).before_head_commit = "b0"
    /\ RepoStateOf(repoStates, 1, 2).before_head_commit = None
    /\ Len(procs) >= 2
    /\ RepoStateOf(repoStates, 2, 1).before_head_commit = "c1"
    /\ RepoStateOf(repoStates, 2, 2).before_head_commit = "c0"


(***************************************************************************)
(* Properties of the log drain                                             *)
(***************************************************************************)
RawOutput(history) == SelectSeq(history, LAMBDA m : m.kind \in {"Stdout", "Stderr"})

DrainFile(id) == FileLines(logFile, <<ProcById(procs, id).session_id, id>>)

\* C19: for an execution whose drain task subscribed to its live MsgStore,
\* the log file holds, for the Stdout and Stderr messages the task has
\* consumed, one JSON line each, in push order and nothing else; when the task
\* has ended it consumed every message pushed before Finished, whether it was
\* pushed before or after the subscription (no write to the file failing)
C19_DrainWritesOutput ==
    \A id \in DOMAIN streams :
       (streams[id].pc # "returned" /\ ~streams[id].failed)
         => LET st == streams[id]
                lines == DrainFile(id)
                expected == RawOutput(SubSeq(st.history, 1, st.pos))
            IN  /\ Len(lines) = Len(expected)
                /\ \A i \in 1..Len(expected) :
                      /\ lines[i][2] = expected[i].kind
                      /\ lines[i] = <<"{", expected[i].kind, ":", expected[i].content,
                                      "}", "\n">>
                /\ st.pc = "ended" =>
                      /\ st.pos = Len(st.history)
                      /\ st.history[st.pos].kind = "Finished"
                      /\ \A i \in 1..(st.pos - 1) : st.history[i].kind # "Finished"

\* a Stderr pushed before the subscription, a JsonPatch and a Stdout pushed
\* after it, all consumed by a task that has ended
C19_Witness ==
    \E id \in DOMAIN streams :
       /\ streams[id].pc = "ended"
       /\ ~streams[id].failed
       /\ streams[id].snapshot = 1
       /\ Len(streams[id].history) = 4
       /\ streams[id].history[1].kind = "Stderr"
       /\ streams[id].history[2].kind = "JsonPatch"
       /\ streams[id].history[3].kind = "Stdout"
       /\ Len(DrainFile(id)) = 2

LiveAt(id, k) ==
    [Store EXCEPT !.msgStores = (id :> SubSeq(streams[id].history, 1, k))]

\* what was pushed to that store afterwards, up to its Finished
PushedAfter(id, k) == SubSeq(streams[id].history, k + 1, Len(streams[id].history))

\* the executions whose drain task has ended after writing every line, and
\* whose store has been removed
Drained ==
    {id \in DOMAIN streams :
        streams[id].pc = "ended" /\ ~streams[id].failed /\ id \notin DOMAIN msgStores}

SameRawReplay(id, k) ==
    LET live == stream_raw_logs(LiveAt(id, k), legacyLogs, id, PushedAfter(id, k))
        disk == stream_raw_logs(Store, legacyLogs, id, <<>>)
    IN  /\ live.some
        /\ disk.some
        /\ Len(live.items) = Len(disk.items)
        /\ \A i \in 1..Len(live.items) :
              /\ live.items[i].kind = disk.items[i].kind
              /\ live.items[i].content = disk.items[i].content
        /\ Len(live.items) >= 1
        /\ \A i \in 1..Len(live.items) :
              live.items[i].kind = "Finished" <=> i = Len(live.items)

\* C21: for every finished execution, also one without Stdout or Stderr,
\* stream_raw_logs yields the same Stdout and Stderr messages from the live
\* store as from disk after the store was removed, and both streams end with
\* exactly one Finished
C21_RawReplayEquivalence ==
    \A id \in Drained : \A k \in 0..(Len(streams[id].history) - 1) : SameRawReplay(id, k)

\* the same for the executions that produced a Stdout or Stderr message
C21_RawReplayEquivalenceWithOutput ==
    \A id \in Drained :
       (\E i \in 1..Len(streams[id].history) :
            streams[id].history[i].kind \in {"Stdout", "Stderr"})
         => \A k \in 0..(Len(streams[id].history) - 1) : SameRawReplay(id, k)

(***************************************************************************)
(* Properties of reset_session_to_process (SpecReset)                      *)
(***************************************************************************)
ResetReturns == last.op = "reset_session_to_process"

\* the rows of the target's session created at or after the target
AtOrAfterTarget(p) ==
    /\ p.session_id = last.env.session_id
    /\ p.id >= last.env.target_process_id

\* C22: after reset_session_to_process(s, p, ...) returns Ok, p and every
\* process of session s created at or after p are deleted; the earlier
\* processes of s and all processes of other sessions are retained
C22_ResetDrops ==
    (ResetReturns /\ last.ret = "Ok") =>
        \A i \in 1..Len(last.env.before) :
            HasProc(procs, last.env.before[i].id) <=> ~AtOrAfterTarget(last.env.before[i])

\* a reset to the second of three processes, the first of the same session
\* and the third of the other session: only the second is deleted
C22_Witness ==
    /\ ResetReturns /\ last.ret = "Ok"
    /\ last.env.target_process_id = 2
    /\ Len(last.env.before) = 3
    /\ last.env.before[1].session_id = 1
    /\ last.env.before[2].session_id = 1
    /\ last.env.before[3].session_id = 2
    /\ ProcIds = {1, 3}

NonDevRunning(ps) ==
    {i \in 1..Len(ps) : ps[i].status = "Running" /\ ps[i].run_reason # "DevServer"}

\* C23: reset_session_to_process requests stop(Killed) for every Running
\* process that is not a dev server, in every session of the workspace,
\* before it deletes any process, and stops no dev server; when the stop
\* requests of try_stop succeeded, no process other than a dev server is
\* Running after a reset that returned Ok
C23_StopBeforeDrop ==
    [][/\ (resetTask.pc = "stop" /\ resetTask'.pc = "drop" /\ resetTask.env.stop) =>
             /\ Len(procs') = Len(procs)
             /\ \A i \in 1..Len(procs) :
                   IF i \in NonDevRunning(procs)
                     THEN procs'[i].status = "Killed"
                     ELSE procs'[i] = procs[i]
       /\ (\E id \in ProcIds : ~HasProc(procs', id)) =>
             /\ resetTask.pc = "drop"
             /\ resetTask.env.stop => NonDevRunning(procs) = {}
       /\ (last'.op = "reset_session_to_process" /\ last'.ret = "Ok"
              /\ last'.env.stop) => NonDevRunning(procs') = {}]_vars

\* a reset that returned Ok after it killed a Running agent of the other
\* session and left a Running dev server alone
C23_Witness ==
    /\ ResetReturns /\ last.ret = "Ok" /\ last.env.stop
    /\ \E i \in 1..Len(last.env.before) :
          /\ last.env.before[i].status = "Running"
          /\ last.env.before[i].run_reason = "CodingAgent"
          /\ last.env.before[i].session_id # last.env.session_id
          /\ HasProc(procs, last.env.before[i].id)
          /\ ProcById(procs, last.env.before[i].id).status = "Killed"
    /\ \E i \in 1..Len(procs) :
          procs[i].status = "Running" /\ procs[i].run_reason = "DevServer"

\* C24: for each repo the reset reconciles the worktree to the target's
\* before_head_commit, else to the after_head_commit of the previous process
\* of the session, and when reset_session_to_process(s, p, true, true)
\* returns, the HEAD of each reconciled repo equals that commit, also when a
\* process that is not a dev server was Running at call time
C24_ResetHeads ==
    (ResetReturns /\ last.ret = "Ok" /\ last.env.perform_git_reset) =>
        \A k \in 1..Len(last.env.reconciled) :
            heads[last.env.reconciled[k][1]] = last.env.reconciled[k][2]

\* the same for the calls during which no child committed
C24_ResetHeadsNoCommit ==
    (ResetReturns /\ last.ret = "Ok" /\ last.env.perform_git_reset
        /\ last.env.commits = 0) =>
        \A k \in 1..Len(last.env.reconciled) :
            heads[last.env.reconciled[k][1]] = last.env.reconciled[k][2]

\* C25: when reset_session_to_process returns an error it has changed no
\* process status and deleted no row
C25_ErrorChangesNoRow ==
    (ResetReturns /\ last.ret # "Ok") => procs = last.env.before

\* the same for the errors other than that of drop_at_and_after
C25_ErrorBeforeStopChangesNoRow ==
    (ResetReturns /\ last.ret # "Ok" /\ last.env.fail # "drop_at_and_after")
        => procs = last.env.before

(***************************************************************************)
(* Properties of migrate_execution_logs_to_files (SpecMigrate)             *)
(***************************************************************************)
MigrateReturned == last.op = "migrate_execution_logs_to_files"

\* C26: a run of migrate_execution_logs_to_files that follows a completed
\* run returns at the check of the empty legacy table and changes neither
\* the table nor any file, and no run modifies a log file that already
\* exists at its final path
C26_SecondRunChangesNothing ==
    [][/\ (MigrateReturned /\ last.ret = "Ok" /\ last' # last) =>
             /\ last'.op = "migrate_execution_logs_to_files"
             /\ last'.ret = "Ok"
             /\ last'.env.early
             /\ UNCHANGED <<legacyLogs, logFile, tmpFiles, migration>>
       /\ \A path \in DOMAIN logFile :
             /\ path \in DOMAIN logFile'
             /\ logFile'[path] = logFile[path]]_vars

\* a second run has returned at the check; the file that was at its final
\* path before the first run is as it was, beside a migrated file
C26_Witness ==
    /\ MigrateReturned /\ last.ret = "Ok" /\ last.env.early
    /\ process_log_file_path(1, 1) \in DOMAIN logFile
    /\ logFile[process_log_file_path(1, 1)] = ExistingFile
    /\ process_log_file_path(1, 2) \in DOMAIN logFile

\* the rows of a pair in stored order, one per line
MigratedLines(path) ==
    LET rows == SelectSeq(legacyLogs, LAMBDA r : /\ r.session_id = path[1]
                                                 /\ r.execution_id = path[2])
    IN  [i \in 1..Len(rows) |->
            IF rows[i].logs[Len(rows[i].logs)] = "\n" THEN rows[i].logs
            ELSE rows[i].logs \o <<"\n">>]

\* C27: for a pair whose destination is absent the migration writes all its
\* rows in stored order, one per line, to the temporary sibling and then
\* renames it, so that a final file is never partial, also when the run is
\* interrupted; a pair without rows produces no final file and, when its
\* remove_file succeeded, leaves no temporary file
C27_MigratedFileComplete ==
    [][/\ \A path \in DOMAIN logFile' \ DOMAIN logFile :
             /\ MigratedLines(path) # <<>>
             /\ logFile'[path] = MigratedLines(path)
             /\ path \in DOMAIN tmpFiles
             /\ tmpFiles[path] = MigratedLines(path)
             /\ path \notin DOMAIN tmpFiles'
       /\ \A path \in DOMAIN logFile :
             path \in DOMAIN logFile' /\ logFile'[path] = logFile[path]
       /\ (migration.pc = "running" /\ migration'.pc = "running"
              /\ last'.ret = None) =>
             \A path \in DOMAIN migration.tasks :
                (/\ migration.tasks[path].pc = "write"
                 /\ migration'.tasks[path].pc = "done"
                 /\ MigratedLines(path) = <<>>)
                   => path \notin DOMAIN logFile' /\ path \notin DOMAIN tmpFiles']_vars

\* the two rows of the second execution are in its final file, the second
\* with the newline it lacked, and the pair without rows is done and has
\* neither a final nor a temporary file
C27_Witness ==
    /\ migration.pc = "running"
    /\ process_log_file_path(1, 3) \in DOMAIN migration.tasks
    /\ migration.tasks[process_log_file_path(1, 3)].pc = "done"
    /\ process_log_file_path(1, 3) \notin DOMAIN tmpFiles
    /\ process_log_file_path(1, 3) \notin DOMAIN logFile
    /\ process_log_file_path(1, 2) \in DOMAIN logFile
    /\ logFile[process_log_file_path(1, 2)] =
          <<json_line(Stdout("a")), <<"{", "Stderr", ":", "b", "}", "\n">>>>

C28_AfterHeadOnTerminal ==
    (/\ last.op = "start_execution"
     /\ last.id # 0
     /\ LastRow.status \in {"Completed", "Failed", "Killed"})
    => \A i \in 1..Len(repos) :
          \E r \in repoStates :
             /\ r.execution_process_id = last.id
             /\ r.repo_id = repos[i].id
             /\ (r.after_head_commit # None <=> get_head_info(repos[i].name) # None)

(***************************************************************************)
(* Properties of the normalized log replay (SpecDrain)                     *)
(***************************************************************************)
\* only JsonPatch messages, followed by exactly one Finished as last item
PatchesThenFinished(items) ==
    /\ Len(items) >= 1
    /\ \A i \in 1..Len(items) :
          IF i = Len(items) THEN items[i].kind = "Finished"
          ELSE items[i].kind = "JsonPatch"

SameNormalizedReplay(id, k) ==
    LET live == stream_normalized_logs(LiveAt(id, k), legacyLogs, id, PushedAfter(id, k))
        disk == stream_normalized_logs(Store, legacyLogs, id, <<>>)
    IN  /\ live.some
        /\ disk.some
        /\ PatchesThenFinished(live.items)
        /\ PatchesThenFinished(disk.items)

\* C30: for a finished execution, of every action type, stream_normalized_logs
\* has the same outcome from the live store as from disk after the store was
\* removed: a stream of JsonPatch messages only, followed by exactly one
\* Finished as its last item
C30_NormalizedReplayEquivalence ==
    \A id \in Drained :
       \A k \in 0..(Len(streams[id].history) - 1) : SameNormalizedReplay(id, k)

\* the same for the coding-agent executions that produced a Stdout or
\* Stderr message
C30_NormalizedReplayOfAgentOutput ==
    \A id \in Drained :
       (/\ IsCodingAgentTyp(typ(ProcById(procs, id).executor_action))
        /\ \E i \in 1..Len(streams[id].history) :
              streams[id].history[i].kind \in {"Stdout", "Stderr"})
         => \A k \in 0..(Len(streams[id].history) - 1) : SameNormalizedReplay(id, k)

(***************************************************************************)
(* Properties of chains driven to their end (SpecChain)                    *)
(***************************************************************************)
\* the process whose exit monitor ran in this step, as it was persisted
Exited == ProcById(procs', last'.id)

ExitedCompleted ==
    /\ last'.op = "exit_monitor"
    /\ Exited.status = "Completed"

\* C31: in a sequential chain whose processes all complete, should_finalize
\* is false after every process except the last and true after the last, so
\* that the notification is sent exactly once, at the end of the chain, for
\* any number of setup and cleanup scripts
C31_NotifiedAtChainEnd ==
    [][ExitedCompleted =>
          /\ should_finalize(Exited) <=> ~HasNext(Exited)
          /\ Len(notifications') =
                Len(notifications) + (IF HasNext(Exited) THEN 0 ELSE 1)]_vars

\* C32: once archive_workspace has set archived, the flag stays true while
\* the archive chain runs to its end through try_start_next_action, for any
\* number of repos with archive scripts
C32_ArchivedWhileChainRuns ==
    [][(/\ ws.archived
        /\ last'.op = "exit_monitor"
        /\ typ(Exited.executor_action).context = "ArchiveScript") => ws'.archived]_vars

\* the same for the workspaces in which one repo has an archive script
C32_ArchivedWhileSingleScriptRuns ==
    [][(/\ ws.archived
        /\ last'.op = "exit_monitor"
        /\ typ(Exited.executor_action).context = "ArchiveScript"
        /\ Len(archive_actions_for_repos(repos)) = 1) => ws'.archived]_vars

\* C33: every process whose action is a ScriptRequest has the run reason of
\* the script's context, whether it was started by start_workspace, by
\* try_run_archive_script or by try_start_next_action
C33_RunReasonIsContext ==
    \A i \in 1..Len(procs) :
        typ(procs[i].executor_action).typ = "ScriptRequest"
            => procs[i].run_reason = typ(procs[i].executor_action).context

\* the same for the processes started by start_workspace and by
\* try_run_archive_script
C33_RunReasonOfFirstScript ==
    (last.op \in {"start_workspace", "archive_workspace"}) =>
        \A k \in 1..Len(last.calls) :
            typ(last.calls[k].executor_action).typ = "ScriptRequest"
                => last.calls[k].run_reason = typ(last.calls[k].executor_action).context

(***************************************************************************)
(* Properties of the drain task's start (SpecDrain)                        *)
(***************************************************************************)
\* C34: the drain task of every successfully started execution obtains the
\* execution's MsgStore from msg_stores, so that no exit of the child right
\* after the start leaves what it pushed out of the log file: a task whose
\* log writer was created never returns without a stream
C34_DrainObtainsStore ==
    \A id \in DOMAIN streams : ~streams[id].failed => streams[id].pc # "returned"

\* the lookup of a task finds the store while the child has not exited
C34_DrainObtainsStoreOfLiveChild ==
    [][\A id \in ProcIds :
          (/\ id \notin DOMAIN streams
           /\ id \in DOMAIN streams'
           /\ ~streams'[id].failed
           /\ id \in children) => streams'[id].pc = "streaming"]_vars

(***************************************************************************)
(* Properties of the rows a reset deletes (SpecReset)                      *)
(***************************************************************************)
Terminal(p) == p.status \in {"Completed", "Failed", "Killed"}

\* the rows of procs that the step deletes
DeletedRows == {i \in 1..Len(procs) : ~HasProc(procs', procs[i].id)}

\* C35: reset_session_to_process never deletes a process row whose status is
\* still Running: every row it deletes is in a terminal status at the time of
\* the deletion, whatever its run reason (stated for the calls whose stop
\* requests in try_stop all succeeded)
C35_DeletesTerminalRows ==
    [][(resetTask.pc = "drop" /\ resetTask.env.stop) =>
          \A i \in DeletedRows : Terminal(procs[i])]_vars

\* the same for the rows that are not dev servers
C35_DeletesTerminalRowsBesideDevServers ==
    [][(resetTask.pc = "drop" /\ resetTask.env.stop) =>
          \A i \in DeletedRows :
              procs[i].run_reason # "DevServer" => Terminal(procs[i])]_vars

DrainNext(id) == streams[id].history[streams[id].pos + 1]

TurnsIn(ts, id) == {turn \in ts : turn.execution_process_id = id}

\* the store of the execution was taken out of msg_stores and closed
Closed(id) == id \in drains /\ id \notin DOMAIN msgStores

DrainTerminated(id) == id \in DOMAIN streams /\ streams[id].pc \in {"ended", "returned"}

\* what one step of the loop does
DrainHandlesInOrder ==
    last'.op = "drain_step" =>
        LET id == last'.id
            msg == DrainNext(id)
        IN  /\ streams[id].pc = "streaming"
            /\ streams'[id].pos = streams[id].pos + 1
            /\ streams'[id].history = streams[id].history
            /\ streams'[id].pc = IF msg.kind = "Finished" THEN "ended" ELSE "streaming"
            /\ msg.kind \in {"SessionId", "MessageId"} =>
                  /\ logFile' = logFile
                  /\ turns' \ TurnsIn(turns', id) = turns \ TurnsIn(turns, id)
                  /\ \A turn \in TurnsIn(turns, id) :
                        IF last'.ret = "Err" THEN turn \in turns'
                        ELSE IF msg.kind = "SessionId"
                          THEN [turn EXCEPT !.agent_session_id = msg.content] \in turns'
                          ELSE [turn EXCEPT !.agent_message_id = msg.content] \in turns'
                  /\ Cardinality(TurnsIn(turns', id)) = Cardinality(TurnsIn(turns, id))
            /\ msg.kind \notin {"SessionId", "MessageId"} => turns' = turns
            /\ msg.kind \notin {"Stdout", "Stderr"} => logFile' = logFile

\* C37: the drain task handles the messages of its stream in order: on
\* SessionId it sets agent_session_id of the execution's turn, on MessageId
\* agent_message_id, and writes neither to the log file; a failed append or
\* update does not stop it; it stops at the first Finished; once the store is
\* closed by push_finished the task eventually terminates
C37_DrainHandlesAndTerminates ==
    /\ [][DrainHandlesInOrder]_vars
    /\ \A id \in 1..MaxProcs : Closed(id) ~> DrainTerminated(id)

\* a task that lost an update of the session id and an append went on to set
\* the message id and ended at Finished
C37_Witness ==
    \E id \in DOMAIN streams :
       /\ streams[id].pc = "ended"
       /\ streams[id].failed
       /\ Len(streams[id].history) = 4
       /\ streams[id].history[1].kind = "SessionId"
       /\ streams[id].history[2].kind = "Stdout"
       /\ streams[id].history[3].kind = "MessageId"
       /\ DrainFile(id) = <<>>
       /\ \E turn \in TurnsIn(turns, id) :
             turn.agent_session_id = None /\ turn.agent_message_id = "m1"

(***************************************************************************)
(* Properties of the traversal of a chain (SpecChain)                      *)
(***************************************************************************)
\* the nodes the Running processes have still to run, their own included
RECURSIVE Pending(_)
Pending(ps) ==
    IF ps = <<>> THEN 0
    ELSE (IF Head(ps).status = "Running" THEN Len(Head(ps).executor_action) ELSE 0)
            + Pending(Tail(ps))

\* C38: a chain driven by try_start_next_action after each process ends
\* starts at most one process per node, in chain order: the exit of a
\* process starts at most one process, whose action is exactly the
\* next_action of the persisted action of the process that ended, in the same
\* session; no persisted action changes; nothing is started after the last
\* node; the nodes still to run decrease with every exit, so that a chain of
\* n nodes yields at most n processes
C38_OneProcessPerNode ==
    [][last'.op = "exit_monitor" =>
          /\ Len(procs') \in {Len(procs), Len(procs) + 1}
          /\ \A i \in 1..Len(procs) :
                /\ procs'[i].id = procs[i].id
                /\ procs'[i].executor_action = procs[i].executor_action
          /\ Len(procs') = Len(procs) + 1 =>
                /\ HasNext(Exited)
                /\ procs'[Len(procs')].executor_action = next_action(Exited.executor_action)
                /\ procs'[Len(procs')].session_id = Exited.session_id
                /\ procs'[Len(procs')].id \notin ProcIds
                /\ procs'[Len(procs')].status = "Running"
          /\ ~HasNext(Exited) => Len(procs') = Len(procs)
          /\ Pending(procs') < Pending(procs)]_vars

\* the chain of a setup script, the agent and a cleanup script was run to its
\* end by three processes
C38_Witness ==
    /\ last.op = "exit_monitor"
    /\ Len(procs) = 3
    /\ Len(procs[1].executor_action) = 3
    /\ procs[2].executor_action = next_action(procs[1].executor_action)
    /\ procs[3].executor_action = next_action(procs[2].executor_action)
    /\ last.id = procs[3].id
    /\ \A i \in 1..3 : procs[i].status = "Completed"

(***************************************************************************)
(* Properties of the builders of script chains (SpecBuild)                 *)
(***************************************************************************)
BuilderContext ==
    [setup_actions_for_repos |-> "SetupScript",
     cleanup_actions_for_repos |-> "CleanupScript",
     archive_actions_for_repos |-> "ArchiveScript"]

\* the script of a repo that a builder looks at
BuilderScript(op, repo) ==
    IF op = "setup_actions_for_repos" THEN repo.setup_script
    ELSE IF op = "cleanup_actions_for_repos" THEN repo.cleanup_script
    ELSE repo.archive_script

\* the positions in repos of the repos that have the script of the builder
WithScript(op) == {i \in 1..Len(repos) : BuilderScript(op, repos[i]) # None}

\* C39: setup_actions_for_repos, cleanup_actions_for_repos and
\* archive_actions_for_repos return nothing when no repo has the script, and
\* otherwise a chain with exactly one ScriptRequest per repo that has it, in
\* input order, each with the builder's context, the repo's script and the
\* repo's name as working_dir
C39_OneScriptPerRepoInOrder ==
    last.op \in DOMAIN BuilderContext =>
        LET chain == last.ret
        IN  /\ chain = <<>> <=> WithScript(last.op) = {}
            /\ Len(chain) = Cardinality(WithScript(last.op))
            /\ \A k \in 1..Len(chain) :
                  \E i \in WithScript(last.op) :
                     /\ Cardinality({j \in WithScript(last.op) : j < i}) = k - 1
                     /\ chain[k].typ = "ScriptRequest"
                     /\ chain[k].language = "Bash"
                     /\ chain[k].context = BuilderContext[last.op]
                     /\ chain[k].script = BuilderScript(last.op, repos[i])
                     /\ chain[k].working_dir = repos[i].name

\* the cleanup chain of repo b followed by repo a, given in that order
C39_Witness ==
    /\ last.op = "cleanup_actions_for_repos"
    /\ Len(repos) = 2
    /\ repos[1].name = "b" /\ repos[2].name = "a"
    /\ Len(last.ret) = 2
    /\ last.ret[1].working_dir = "b"
    /\ last.ret[2].working_dir = "a"
    /\ last.ret[1].context = "CleanupScript"

(***************************************************************************)
(* Properties of merge_commit (SpecFrame)                                  *)
(***************************************************************************)
SameRepoState(r, old) ==
    /\ old.execution_process_id = r.execution_process_id
    /\ old.repo_id = r.repo_id

\* C40: no operation of the service sets merge_commit: every repo-state row
\* is created with merge_commit absent, and every write of start_execution,
\* try_start_next_action, cleanup_orphan_executions, the backfills,
\* reset_session_to_process and archive_workspace leaves the merge_commit of
\* the rows that exist as it was
C40_MergeCommitUntouched ==
    [][\A r \in repoStates' :
          IF \E old \in repoStates : SameRepoState(r, old)
            THEN \E old \in repoStates :
                    SameRepoState(r, old) /\ old.merge_commit = r.merge_commit
            ELSE r.merge_commit = None]_vars

\* the cleanup script was started after the exit of process 2, whose stamped
\* row got its after_head_commit: the stamp is as it was and the rows of the
\* new process have none
C40_Witness ==
    /\ last.op = "exit_monitor"
    /\ \E r \in repoStates :
          /\ r.execution_process_id = 2
          /\ r.merge_commit = "m1"
          /\ r.after_head_commit = "c2"
    /\ \E r \in repoStates : r.execution_process_id = 3 /\ r.merge_commit = None

====
